---- MODULE Spec2Model ----
(***************************************************************************)
(* Model of the microscan driver: the K-setting codec (config.py), the     *)
(* configuration aggregate (MicroscanConfiguration) and the device session *)
(* (MicroscanDriver in driver.py).                                         *)
(*                                                                         *)
(* Byte strings are sequences of one-character strings.  Python values are *)
(* records tagged with their type, so that b'1/' and '1/' differ as they   *)
(* do in Python.                                                           *)
(***************************************************************************)
EXTENDS Integers, Sequences, FiniteSets, TLC

\* ------------------------------------------------------------------------
\* Python values
\* ------------------------------------------------------------------------
NL == "\n"
CR == "\r"

NoneV == [t |-> "none", v |-> <<>>]
PyBytes(s) == [t |-> "bytes", v |-> s]
PyStr(s) == [t |-> "str", v |-> s]
PyInt(n) == [t |-> "int", v |-> n]
EnumV(e, c) == [t |-> "enum", v |-> <<c>>, e |-> e]

Digits == <<"0", "1", "2", "3", "4", "5", "6", "7", "8", "9">>
DigitSet == {Digits[i] : i \in 1..10}
LowerHex == {"a", "b", "c", "d", "e", "f"}
UpperHex == {"A", "B", "C", "D", "E", "F"}
HexSet == DigitSet \cup LowerHex \cup UpperHex
UpperSet == {"A", "B", "C", "D", "E", "F", "G", "H", "I", "J", "K", "L", "M",
             "N", "O", "P", "Q", "R", "S", "T", "U", "V", "W", "X", "Y", "Z"}
\* every character that occurs in the model
Chars == HexSet \cup UpperSet \cup
         {"<", ">", ",", "?", "-", "^", "/", "|", "+", "=", "t", "x", "_", "[", "]", "\\", "*", CR, NL}
\* what `.` matches in a bytes pattern without DOTALL
Dot == Chars \ {NL}
DigitRange(lo, hi) == {Digits[i] : i \in (lo + 1)..(hi + 1)}

DigitValue(c) == (CHOOSE i \in 1..10 : Digits[i] = c) - 1

RECURSIVE IntToStr(_)
\* str(n).encode('ascii')
IntToStr(n) ==
    IF n < 0 THEN <<"-">> \o IntToStr(-n)
    ELSE IF n < 10 THEN <<Digits[n + 1]>>
    ELSE IntToStr(n \div 10) \o <<Digits[(n % 10) + 1]>>

RECURSIVE StrToIntAcc(_, _, _)
StrToIntAcc(s, i, acc) ==
    IF i > Len(s) THEN acc
    ELSE StrToIntAcc(s, i + 1, acc * 10 + DigitValue(s[i]))

IsDigitStr(s) == Len(s) > 0 /\ \A i \in 1..Len(s) : s[i] \in DigitSet

\* ------------------------------------------------------------------------
\* Regular expressions, as used by re.match on the K_PATTERNs
\* ------------------------------------------------------------------------
Inf == 99

Lit(c) == [k |-> "lit", c |-> c, opt |-> FALSE, alts |-> <<>>]
End == [k |-> "end", c |-> "", opt |-> FALSE, alts |-> <<>>]
Atom(cls, min, max) == [cls |-> cls, min |-> min, max |-> max]
Grp(opt, alts) == [k |-> "grp", c |-> "", opt |-> opt, alts |-> alts]
\* (cls) and (cls)?
One(cls) == Grp(FALSE, << <<Atom(cls, 1, 1)>> >>)
Opt(cls) == Grp(TRUE, << <<Atom(cls, 1, 1)>> >>)
\* (cls{min,max})?
OptRep(cls, min, max) == Grp(TRUE, << <<Atom(cls, min, max)>> >>)
Lits(s) == [i \in 1..Len(s) |-> Lit(s[i])]
Comma == Lit(",")

MatchFail == [ok |-> FALSE, caps |-> <<>>]
MatchOk(caps) == [ok |-> TRUE, caps |-> caps]

RECURSIVE RunLen(_, _, _, _)
\* number of consecutive characters of s from position j that are in cls,
\* at most max
RunLen(cls, s, j, max) ==
    IF max = 0 \/ j > Len(s) \/ s[j] \notin cls THEN 0
    ELSE 1 + RunLen(cls, s, j + 1, max - 1)

RECURSIVE MatchFrom(_, _, _, _)
RECURSIVE MatchAlts(_, _, _, _, _)
RECURSIVE MatchAtoms(_, _, _, _, _, _, _)
RECURSIVE TryCount(_, _, _, _, _, _, _, _)

\* match pattern p from element i against s from position j; the result
\* holds the captures of the groups from element i on (None for a group
\* that did not take part).  Greedy with backtracking, first match wins.
MatchFrom(p, i, s, j) ==
    IF i > Len(p) THEN MatchOk(<<>>)
    ELSE LET e == p[i] IN
      CASE e.k = "lit" ->
             IF j <= Len(s) /\ s[j] = e.c THEN MatchFrom(p, i + 1, s, j + 1)
             ELSE MatchFail
        [] e.k = "end" ->
             IF j = Len(s) + 1 \/ (j = Len(s) /\ s[j] = NL)
             THEN MatchFrom(p, i + 1, s, j)
             ELSE MatchFail
        [] OTHER ->
             LET r == MatchAlts(p, i, 1, s, j) IN
             IF r.ok THEN r
             ELSE IF e.opt
                  THEN LET r2 == MatchFrom(p, i + 1, s, j) IN
                       IF r2.ok THEN MatchOk(<<NoneV>> \o r2.caps) ELSE MatchFail
                  ELSE MatchFail

MatchAlts(p, i, a, s, j) ==
    IF a > Len(p[i].alts) THEN MatchFail
    ELSE LET r == MatchAtoms(p, i, a, 1, s, j, j) IN
         IF r.ok THEN r ELSE MatchAlts(p, i, a + 1, s, j)

MatchAtoms(p, i, a, k, s, start, j) ==
    LET atoms == p[i].alts[a] IN
    IF k > Len(atoms)
    THEN LET r == MatchFrom(p, i + 1, s, j) IN
         IF r.ok THEN MatchOk(<<PyBytes(SubSeq(s, start, j - 1))>> \o r.caps)
         ELSE MatchFail
    ELSE TryCount(p, i, a, k, s, start, j,
                  RunLen(atoms[k].cls, s, j, atoms[k].max))

TryCount(p, i, a, k, s, start, j, n) ==
    IF n < p[i].alts[a][k].min THEN MatchFail
    ELSE LET r == MatchAtoms(p, i, a, k + 1, s, start, j + n) IN
         IF r.ok THEN r ELSE TryCount(p, i, a, k, s, start, j, n - 1)

\* re.match(pattern, s)
ReMatch(p, s) == MatchFrom(p, 1, s, 1)


\* ------------------------------------------------------------------------
\* Outcomes of a call: a returned value or a raised exception
\* ------------------------------------------------------------------------
Ret(v) == [ok |-> TRUE, v |-> v, exc |-> ""]
Raise(e) == [ok |-> FALSE, v |-> NoneV, exc |-> e]

\* ------------------------------------------------------------------------
\* The setting classes: K_CODE, K_PATTERN, the constructor defaults, the
\* list built by to_config_string and the conversions applied by
\* from_config_string to the groups of the match
\* ------------------------------------------------------------------------
EncNone == [how |-> "none", f |-> ""]
EncValue(f) == [how |-> "value", f |-> f]
EncBaud(f) == [how |-> "baud", f |-> f]
EncRaw(f) == [how |-> "raw", f |-> f]
DecRaw(f, g) == [how |-> "raw", f |-> f, g |-> g, e |-> ""]
DecInt(f, g) == [how |-> "int", f |-> f, g |-> g, e |-> ""]
DecBaud(f, g) == [how |-> "baud", f |-> f, g |-> g, e |-> ""]
DecEnum(f, g, e) == [how |-> "enum", f |-> f, g |-> g, e |-> e]

BAUD_RATES ==
    [c \in DigitRange(0, 8) |->
        CASE c = "0" -> 600
          [] c = "1" -> 1200
          [] c = "2" -> 2400
          [] c = "3" -> 4800
          [] c = "4" -> 9600
          [] c = "5" -> 19200
          [] c = "6" -> 38400
          [] c = "7" -> 57600
          [] c = "8" -> 115200]

\* the wire values of each Enum class used by a registered setting
EnumValues ==
    [Parity |-> {"0", "1", "2"},
     StopBits |-> {"0", "1"},
     DataBits |-> {"0", "1"},
     Protocol |-> {"0", "1", "2", "3", "4", "5", "6", "7"},
     RS422Status |-> {"0", "1"},
     AuxiliaryPortMode |-> {"0", "1", "2", "3", "4", "5"},
     DaisyChainIdStatus |-> {"0", "1"},
     PreambleStatus |-> {"0", "1"},
     PostambleStatus |-> {"0", "1"},
     LRCStatus |-> {"0", "1"},
     TriggerMode |-> {"0", "1", "2", "3", "4", "5"},
     ExternalTriggerState |-> {"0", "1"},
     EndReadCycleMode |-> {"0", "1", "2"},
     DecodesBeforeOutputMode |-> {"0", "1"},
     AGCSamplingMode |-> {"0", "1", "2"},
     SymbolDetectStatus |-> {"0", "1"},
     ScanWidthEnhanceStatus |-> {"0", "1"},
     LaserOnOffStatus |-> {"0", "1"},
     LaserFramingStatus |-> {"0", "1"},
     LaserPower |-> {"0", "1", "2"},
     Code39Status |-> {"0", "1"},
     CheckDigitStatus |-> {"0", "1"},
     CheckDigitOutputStatus |-> {"0", "1"},
     LargeInterCharacterStatus |-> {"0", "1"},
     FixedSymbolLengthStatus |-> {"0", "1"},
     FullASCIISetStatus |-> {"0", "1"},
     Code128Status |-> {"0", "1"},
     EAN128Status |-> {"0", "1", "2"},
     Code128OutputFormat |-> {"0", "1"},
     ApplicationRecordSeparatorStatus |-> {"0", "1"},
     ApplicationRecordBrackets |-> {"0", "1"},
     ApplicationRecordPadding |-> {"0", "1"},
     UPCStatus |-> {"0", "1"},
     EANStatus |-> {"0", "1"},
     SupplementalsStatus |-> {"0", "1", "2"},
     SeparatorStatus |-> {"0", "1"},
     UPC_EoutputAsUPC_A |-> {"0", "1"},
     Code93Status |-> {"0", "1"},
     NarrowMarginsStatus |-> {"0", "1"},
     SymbologyIDStatus |-> {"0", "1"},
     Color |-> {"0", "1"},
     SymbolRatio |-> {"0", "1", "2"}]

\* class HostPortConnection, K_PATTERN ^<K100,([0-8]),([0-2]),([0-1]),([0-1])>$
HostPortConnection ==
    [name |-> <<"H", "o", "s", "t", "P", "o", "r", "t", "C", "o", "n", "n", "e", "c", "t", "i", "o", "n">>,
     K_CODE |-> <<"K", "1", "0", "0">>,
     K_PATTERN |-> Lits(<<"<", "K", "1", "0", "0", ",">>)
                  \o <<One(DigitRange(0, 8)), Comma,
                      One(DigitRange(0, 2)), Comma,
                      One(DigitRange(0, 1)), Comma,
                      One(DigitRange(0, 1)), Lit(">"), End>>,
     init |-> [baud_rate |-> PyInt(9600),
               parity |-> EnumV("Parity", "0"),
               stop_bits |-> EnumV("StopBits", "0"),
               data_bits |-> EnumV("DataBits", "0")],
     enc |-> <<EncBaud("baud_rate"),
               EncValue("parity"),
               EncValue("stop_bits"),
               EncValue("data_bits")>>,
     dec |-> <<DecBaud("baud_rate", 1),
               DecEnum("parity", 2, "Parity"),
               DecEnum("stop_bits", 3, "StopBits"),
               DecEnum("data_bits", 4, "DataBits")>>]

\* class HostProtocol, K_PATTERN ^<K140,([0-7])(,.*)?>$
HostProtocol ==
    [name |-> <<"H", "o", "s", "t", "P", "r", "o", "t", "o", "c", "o", "l">>,
     K_CODE |-> <<"K", "1", "4", "0">>,
     K_PATTERN |-> Lits(<<"<", "K", "1", "4", "0", ",">>)
                  \o <<One(DigitRange(0, 7)), Grp(TRUE, <<<<Atom({","}, 1, 1), Atom(Dot, 0, Inf)>>>>), Lit(">"), End>>,
     init |-> [protocol |-> EnumV("Protocol", "0")],
     enc |-> <<EncValue("protocol")>>,
     dec |-> <<DecEnum("protocol", 1, "Protocol")>>]

\* class HostRS422Status, K_PATTERN ^<K102,([0-1])?>$
HostRS422Status ==
    [name |-> <<"H", "o", "s", "t", "R", "S", "4", "2", "2", "S", "t", "a", "t", "u", "s">>,
     K_CODE |-> <<"K", "1", "0", "2">>,
     K_PATTERN |-> Lits(<<"<", "K", "1", "0", "2", ",">>)
                  \o <<Opt(DigitRange(0, 1)), Lit(">"), End>>,
     init |-> [status |-> EnumV("RS422Status", "0")],
     enc |-> <<EncValue("status")>>,
     dec |-> <<DecEnum("status", 1, "RS422Status")>>]

\* class RS232AuxiliaryPort, K_PATTERN <K101,([0-5]),([0-8]),([0-2]),([0-1]),([0-1]),([0-1]),(.{1,2})?>
RS232AuxiliaryPort ==
    [name |-> <<"R", "S", "2", "3", "2", "A", "u", "x", "i", "l", "i", "a", "r", "y", "P", "o", "r", "t">>,
     K_CODE |-> <<"K", "1", "0", "1">>,
     K_PATTERN |-> Lits(<<"<", "K", "1", "0", "1", ",">>)
                  \o <<One(DigitRange(0, 5)), Comma,
                      One(DigitRange(0, 8)), Comma,
                      One(DigitRange(0, 2)), Comma,
                      One(DigitRange(0, 1)), Comma,
                      One(DigitRange(0, 1)), Comma,
                      One(DigitRange(0, 1)), Comma,
                      OptRep(Dot, 1, 2), Lit(">")>>,
     init |-> [aux_port_mode |-> EnumV("AuxiliaryPortMode", "0"),
               baud_rate |-> PyInt(9600),
               parity |-> EnumV("Parity", "0"),
               stop_bits |-> EnumV("StopBits", "0"),
               data_bits |-> EnumV("DataBits", "0"),
               daisy_chain_id_status |-> EnumV("DaisyChainIdStatus", "0"),
               daisy_chain_id |-> PyStr(<<"1", "/">>)],
     enc |-> <<EncValue("aux_port_mode"),
               EncBaud("baud_rate"),
               EncValue("parity"),
               EncValue("stop_bits"),
               EncValue("data_bits"),
               EncValue("daisy_chain_id_status"),
               EncRaw("daisy_chain_id")>>,
     dec |-> <<DecEnum("aux_port_mode", 1, "AuxiliaryPortMode"),
               DecBaud("baud_rate", 2),
               DecEnum("parity", 3, "Parity"),
               DecEnum("stop_bits", 4, "StopBits"),
               DecEnum("data_bits", 5, "DataBits"),
               DecEnum("daisy_chain_id_status", 6, "DaisyChainIdStatus"),
               DecRaw("daisy_chain_id", 7)>>]

\* class Preamble, K_PATTERN ^<K141,([0-1])?,(.{1,4})?>$
Preamble ==
    [name |-> <<"P", "r", "e", "a", "m", "b", "l", "e">>,
     K_CODE |-> <<"K", "1", "4", "1">>,
     K_PATTERN |-> Lits(<<"<", "K", "1", "4", "1", ",">>)
                  \o <<Opt(DigitRange(0, 1)), Comma,
                      OptRep(Dot, 1, 4), Lit(">"), End>>,
     init |-> [status |-> EnumV("PreambleStatus", "0"),
               characters |-> NoneV],
     enc |-> <<EncValue("status"),
               EncRaw("characters")>>,
     dec |-> <<DecEnum("status", 1, "PreambleStatus"),
               DecRaw("characters", 2)>>]

\* class Postamble, K_PATTERN ^<K142,([0-1])?,(.{1,4})?>$
Postamble ==
    [name |-> <<"P", "o", "s", "t", "a", "m", "b", "l", "e">>,
     K_CODE |-> <<"K", "1", "4", "2">>,
     K_PATTERN |-> Lits(<<"<", "K", "1", "4", "2", ",">>)
                  \o <<Opt(DigitRange(0, 1)), Comma,
                      OptRep(Dot, 1, 4), Lit(">"), End>>,
     init |-> [status |-> EnumV("PostambleStatus", "0"),
               characters |-> NoneV],
     enc |-> <<EncValue("status"),
               EncRaw("characters")>>,
     dec |-> <<DecEnum("status", 1, "PostambleStatus"),
               DecRaw("characters", 2)>>]

\* class LRC, K_PATTERN ^<K145,([0-1])?>$
LRC ==
    [name |-> <<"L", "R", "C">>,
     K_CODE |-> <<"K", "1", "4", "5">>,
     K_PATTERN |-> Lits(<<"<", "K", "1", "4", "5", ",">>)
                  \o <<Opt(DigitRange(0, 1)), Lit(">"), End>>,
     init |-> [status |-> EnumV("LRCStatus", "0")],
     enc |-> <<EncValue("status")>>,
     dec |-> <<DecEnum("status", 1, "LRCStatus")>>]

\* class InterCharacterDelay, K_PATTERN ^<K144,([\d]{1,3})?>$
InterCharacterDelay ==
    [name |-> <<"I", "n", "t", "e", "r", "C", "h", "a", "r", "a", "c", "t", "e", "r", "D", "e", "l", "a", "y">>,
     K_CODE |-> <<"K", "1", "4", "4">>,
     K_PATTERN |-> Lits(<<"<", "K", "1", "4", "4", ",">>)
                  \o <<OptRep(DigitSet, 1, 3), Lit(">"), End>>,
     init |-> [delay |-> PyInt(0)],
     enc |-> <<EncRaw("delay")>>,
     dec |-> <<DecInt("delay", 1)>>]

\* class Multisymbol, K_PATTERN ^<K222,([1-5])?,(.)?>$
Multisymbol ==
    [name |-> <<"M", "u", "l", "t", "i", "s", "y", "m", "b", "o", "l">>,
     K_CODE |-> <<"K", "2", "2", "2">>,
     K_PATTERN |-> Lits(<<"<", "K", "2", "2", "2", ",">>)
                  \o <<Opt(DigitRange(1, 5)), Comma,
                      Opt(Dot), Lit(">"), End>>,
     init |-> [number_of_symbols |-> PyInt(1),
               multisymbol_separator |-> PyStr(<<",">>)],
     enc |-> <<EncRaw("number_of_symbols"),
               EncRaw("multisymbol_separator")>>,
     dec |-> <<DecInt("number_of_symbols", 1),
               DecRaw("multisymbol_separator", 2)>>]

\* class Trigger, K_PATTERN ^<K200,([0-5])?,([\d]*)?>$
Trigger ==
    [name |-> <<"T", "r", "i", "g", "g", "e", "r">>,
     K_CODE |-> <<"K", "2", "0", "0">>,
     K_PATTERN |-> Lits(<<"<", "K", "2", "0", "0", ",">>)
                  \o <<Opt(DigitRange(0, 5)), Comma,
                      OptRep(DigitSet, 0, Inf), Lit(">"), End>>,
     init |-> [trigger_mode |-> EnumV("TriggerMode", "0"),
               trigger_filter_duration |-> PyInt(244)],
     enc |-> <<EncValue("trigger_mode"),
               EncRaw("trigger_filter_duration")>>,
     dec |-> <<DecEnum("trigger_mode", 1, "TriggerMode"),
               DecInt("trigger_filter_duration", 2)>>]

\* class ExternalTrigger, K_PATTERN ^<K202,([0-1])?>$
ExternalTrigger ==
    [name |-> <<"E", "x", "t", "e", "r", "n", "a", "l", "T", "r", "i", "g", "g", "e", "r">>,
     K_CODE |-> <<"K", "2", "0", "2">>,
     K_PATTERN |-> Lits(<<"<", "K", "2", "0", "2", ",">>)
                  \o <<Opt(DigitRange(0, 1)), Lit(">"), End>>,
     init |-> [external_trigger_state |-> EnumV("ExternalTriggerState", "1")],
     enc |-> <<EncValue("external_trigger_state")>>,
     dec |-> <<DecEnum("external_trigger_state", 1, "ExternalTriggerState")>>]

\* class SerialTrigger, K_PATTERN ^<K201,(.|\^\])?>$
SerialTrigger ==
    [name |-> <<"S", "e", "r", "i", "a", "l", "T", "r", "i", "g", "g", "e", "r">>,
     K_CODE |-> <<"K", "2", "0", "1">>,
     K_PATTERN |-> Lits(<<"<", "K", "2", "0", "1", ",">>)
                  \o <<Grp(TRUE, <<<<Atom(Dot, 1, 1)>>, <<Atom({"^"}, 1, 1), Atom({"]"}, 1, 1)>>>>), Lit(">"), End>>,
     init |-> [serial_trigger_character |-> PyStr(<<"^">>)],
     enc |-> <<EncRaw("serial_trigger_character")>>,
     dec |-> <<DecRaw("serial_trigger_character", 1)>>]

\* class StartTriggerCharacter, K_PATTERN ^<K229,([0-9a-fA-F]{2})?>$
StartTriggerCharacter ==
    [name |-> <<"S", "t", "a", "r", "t", "T", "r", "i", "g", "g", "e", "r", "C", "h", "a", "r", "a", "c", "t", "e", "r">>,
     K_CODE |-> <<"K", "2", "2", "9">>,
     K_PATTERN |-> Lits(<<"<", "K", "2", "2", "9", ",">>)
                  \o <<OptRep(DigitRange(0, 9) \cup LowerHex \cup UpperHex, 2, 2), Lit(">"), End>>,
     init |-> [start_trigger_character |-> NoneV],
     enc |-> <<EncRaw("start_trigger_character")>>,
     dec |-> <<DecRaw("start_trigger_character", 1)>>]

\* class StopTriggerCharacter, K_PATTERN ^<K230,([0-9a-fA-F]{2})?>$
StopTriggerCharacter ==
    [name |-> <<"S", "t", "o", "p", "T", "r", "i", "g", "g", "e", "r", "C", "h", "a", "r", "a", "c", "t", "e", "r">>,
     K_CODE |-> <<"K", "2", "3", "0">>,
     K_PATTERN |-> Lits(<<"<", "K", "2", "3", "0", ",">>)
                  \o <<OptRep(DigitRange(0, 9) \cup LowerHex \cup UpperHex, 2, 2), Lit(">"), End>>,
     init |-> [stop_trigger_character |-> NoneV],
     enc |-> <<EncRaw("stop_trigger_character")>>,
     dec |-> <<DecRaw("stop_trigger_character", 1)>>]

\* class EndReadCycle, K_PATTERN ^<K220,([0-2])?,([\d]*)?>$
EndReadCycle ==
    [name |-> <<"E", "n", "d", "R", "e", "a", "d", "C", "y", "c", "l", "e">>,
     K_CODE |-> <<"K", "2", "2", "0">>,
     K_PATTERN |-> Lits(<<"<", "K", "2", "2", "0", ",">>)
                  \o <<Opt(DigitRange(0, 2)), Comma,
                      OptRep(DigitSet, 0, Inf), Lit(">"), End>>,
     init |-> [end_read_cycle_mode |-> EnumV("EndReadCycleMode", "0"),
               ready_cycle_timeout |-> PyInt(100)],
     enc |-> <<EncValue("end_read_cycle_mode"),
               EncRaw("ready_cycle_timeout")>>,
     dec |-> <<DecEnum("end_read_cycle_mode", 1, "EndReadCycleMode"),
               DecInt("ready_cycle_timeout", 2)>>]

\* class DecodesBeforeOutput, K_PATTERN ^<K221,([\d]{1,3})?,([0-1])?>$
DecodesBeforeOutput ==
    [name |-> <<"D", "e", "c", "o", "d", "e", "s", "B", "e", "f", "o", "r", "e", "O", "u", "t", "p", "u", "t">>,
     K_CODE |-> <<"K", "2", "2", "1">>,
     K_PATTERN |-> Lits(<<"<", "K", "2", "2", "1", ",">>)
                  \o <<OptRep(DigitSet, 1, 3), Comma,
                      Opt(DigitRange(0, 1)), Lit(">"), End>>,
     init |-> [number_before_output |-> PyInt(1),
               decodes_before_output_mode |-> EnumV("DecodesBeforeOutputMode", "0")],
     enc |-> <<EncRaw("number_before_output"),
               EncValue("decodes_before_output_mode")>>,
     dec |-> <<DecInt("number_before_output", 1),
               DecEnum("decodes_before_output_mode", 2, "DecodesBeforeOutputMode")>>]

\* class ScanSpeed, K_PATTERN ^<K500,([\d]{2,3})?>$
ScanSpeed ==
    [name |-> <<"S", "c", "a", "n", "S", "p", "e", "e", "d">>,
     K_CODE |-> <<"K", "5", "0", "0">>,
     K_PATTERN |-> Lits(<<"<", "K", "5", "0", "0", ",">>)
                  \o <<OptRep(DigitSet, 2, 3), Lit(">"), End>>,
     init |-> [scan_speed |-> PyInt(350)],
     enc |-> <<EncRaw("scan_speed")>>,
     dec |-> <<DecInt("scan_speed", 1)>>]

\* class ScannerSetup, K_PATTERN ^<K504,([\d]{2,3})?,([0-2])?,([\d]{2,3})?,([\d]{2,3})?>$
ScannerSetup ==
    [name |-> <<"S", "c", "a", "n", "n", "e", "r", "S", "e", "t", "u", "p">>,
     K_CODE |-> <<"K", "5", "0", "4">>,
     K_PATTERN |-> Lits(<<"<", "K", "5", "0", "4", ",">>)
                  \o <<OptRep(DigitSet, 2, 3), Comma,
                      Opt(DigitRange(0, 2)), Comma,
                      OptRep(DigitSet, 2, 3), Comma,
                      OptRep(DigitSet, 2, 3), Lit(">"), End>>,
     init |-> [gain_level |-> PyInt(350),
               agc_sampling_mode |-> EnumV("AGCSamplingMode", "2"),
               agc_min |-> PyInt(70),
               agc_max |-> PyInt(245)],
     enc |-> <<EncRaw("gain_level"),
               EncValue("agc_sampling_mode"),
               EncRaw("agc_min"),
               EncRaw("agc_max")>>,
     dec |-> <<DecInt("gain_level", 1),
               DecEnum("agc_sampling_mode", 2, "AGCSamplingMode"),
               DecInt("agc_min", 3),
               DecInt("agc_max", 4)>>]

\* class SymbolDetect, K_PATTERN ^<K505,([0-1])?,([\d]{1,3})?>$
SymbolDetect ==
    [name |-> <<"S", "y", "m", "b", "o", "l", "D", "e", "t", "e", "c", "t">>,
     K_CODE |-> <<"K", "5", "0", "5">>,
     K_PATTERN |-> Lits(<<"<", "K", "5", "0", "5", ",">>)
                  \o <<Opt(DigitRange(0, 1)), Comma,
                      OptRep(DigitSet, 1, 3), Lit(">"), End>>,
     init |-> [status |-> EnumV("SymbolDetectStatus", "0"),
               transition_counter |-> PyInt(14)],
     enc |-> <<EncValue("status"),
               EncRaw("transition_counter")>>,
     dec |-> <<DecEnum("status", 1, "SymbolDetectStatus"),
               DecInt("transition_counter", 2)>>]

\* class MaximumElement, K_PATTERN ^<K502,([\d]{1,5})?>$
MaximumElement ==
    [name |-> <<"M", "a", "x", "i", "m", "u", "m", "E", "l", "e", "m", "e", "n", "t">>,
     K_CODE |-> <<"K", "5", "0", "2">>,
     K_PATTERN |-> Lits(<<"<", "K", "5", "0", "2", ",">>)
                  \o <<OptRep(DigitSet, 1, 5), Lit(">"), End>>,
     init |-> [maximum_element |-> PyInt(0)],
     enc |-> <<EncRaw("maximum_element")>>,
     dec |-> <<DecInt("maximum_element", 1)>>]

\* class ScanWidthEnhance, K_PATTERN ^<K511,([0-1])?>$
ScanWidthEnhance ==
    [name |-> <<"S", "c", "a", "n", "W", "i", "d", "t", "h", "E", "n", "h", "a", "n", "c", "e">>,
     K_CODE |-> <<"K", "5", "1", "1">>,
     K_PATTERN |-> Lits(<<"<", "K", "5", "1", "1", ",">>)
                  \o <<Opt(DigitRange(0, 1)), Lit(">"), End>>,
     init |-> [status |-> EnumV("ScanWidthEnhanceStatus", "0")],
     enc |-> <<EncValue("status")>>,
     dec |-> <<DecEnum("status", 1, "ScanWidthEnhanceStatus")>>]

\* class LaserSetup, K_PATTERN ^<K700,([0-1])?,([0-1])?,([\d]{2})?,([\d]{2})?,([0-2])?>$
LaserSetup ==
    [name |-> <<"L", "a", "s", "e", "r", "S", "e", "t", "u", "p">>,
     K_CODE |-> <<"K", "7", "0", "0">>,
     K_PATTERN |-> Lits(<<"<", "K", "7", "0", "0", ",">>)
                  \o <<Opt(DigitRange(0, 1)), Comma,
                      Opt(DigitRange(0, 1)), Comma,
                      OptRep(DigitSet, 2, 2), Comma,
                      OptRep(DigitSet, 2, 2), Comma,
                      Opt(DigitRange(0, 2)), Lit(">"), End>>,
     init |-> [laser_on_off_status |-> EnumV("LaserOnOffStatus", "1"),
               laser_framing_status |-> EnumV("LaserFramingStatus", "1"),
               laser_on_position |-> PyInt(10),
               laser_off_position |-> PyInt(95),
               laser_power |-> EnumV("LaserPower", "2")],
     enc |-> <<EncValue("laser_on_off_status"),
               EncValue("laser_framing_status"),
               EncRaw("laser_on_position"),
               EncRaw("laser_off_position"),
               EncValue("laser_power")>>,
     dec |-> <<DecEnum("laser_on_off_status", 1, "LaserOnOffStatus"),
               DecEnum("laser_framing_status", 2, "LaserFramingStatus"),
               DecInt("laser_on_position", 3),
               DecInt("laser_off_position", 4),
               DecEnum("laser_power", 5, "LaserPower")>>]

\* class Code39, K_PATTERN ^<K470,([0-1])?,([0-1])?,([0-1])?,([0-1])?,([0-1])?,([\d]{1,2})?,([0-1])?>$
Code39 ==
    [name |-> <<"C", "o", "d", "e", "3", "9">>,
     K_CODE |-> <<"K", "4", "7", "0">>,
     K_PATTERN |-> Lits(<<"<", "K", "4", "7", "0", ",">>)
                  \o <<Opt(DigitRange(0, 1)), Comma,
                      Opt(DigitRange(0, 1)), Comma,
                      Opt(DigitRange(0, 1)), Comma,
                      Opt(DigitRange(0, 1)), Comma,
                      Opt(DigitRange(0, 1)), Comma,
                      OptRep(DigitSet, 1, 2), Comma,
                      Opt(DigitRange(0, 1)), Lit(">"), End>>,
     init |-> [status |-> EnumV("Code39Status", "1"),
               check_digit_status |-> EnumV("CheckDigitStatus", "0"),
               check_digit_output |-> EnumV("CheckDigitOutputStatus", "0"),
               large_intercharacter_gap |-> EnumV("LargeInterCharacterStatus", "0"),
               fixed_symbol_length |-> EnumV("FixedSymbolLengthStatus", "0"),
               symbol_length |-> PyInt(10),
               full_ascii_set |-> EnumV("FullASCIISetStatus", "0")],
     enc |-> <<EncValue("status"),
               EncValue("check_digit_status"),
               EncValue("check_digit_output"),
               EncValue("large_intercharacter_gap"),
               EncValue("fixed_symbol_length"),
               EncRaw("symbol_length"),
               EncValue("full_ascii_set")>>,
     dec |-> <<DecEnum("status", 1, "Code39Status"),
               DecEnum("check_digit_status", 2, "CheckDigitStatus"),
               DecEnum("check_digit_output", 3, "CheckDigitOutputStatus"),
               DecEnum("large_intercharacter_gap", 4, "LargeInterCharacterStatus"),
               DecEnum("fixed_symbol_length", 5, "FixedSymbolLengthStatus"),
               DecInt("symbol_length", 6),
               DecEnum("full_ascii_set", 7, "FullASCIISetStatus")>>]

\* class Code128, K_PATTERN ^<K474,([0-1])?,([0-1])?,([\d]{1,2})?,([0-2])?,([0-1])?,([0-1])?,(.|\^[A-Z\[\\]\^_])?,([0-1])?,([0-1])?>$
Code128 ==
    [name |-> <<"C", "o", "d", "e", "1", "2", "8">>,
     K_CODE |-> <<"K", "4", "7", "4">>,
     K_PATTERN |-> Lits(<<"<", "K", "4", "7", "4", ",">>)
                  \o <<Opt(DigitRange(0, 1)), Comma,
                      Opt(DigitRange(0, 1)), Comma,
                      OptRep(DigitSet, 1, 2), Comma,
                      Opt(DigitRange(0, 2)), Comma,
                      Opt(DigitRange(0, 1)), Comma,
                      Opt(DigitRange(0, 1)), Comma,
                      Grp(TRUE, <<<<Atom(Dot, 1, 1)>>, <<Atom({"^"}, 1, 1), Atom(UpperSet \cup {"["} \cup {"\\"}, 1, 1), Atom({"^"}, 1, 1), Atom({"_"}, 1, 1), Atom({"]"}, 1, 1)>>>>), Comma,
                      Opt(DigitRange(0, 1)), Comma,
                      Opt(DigitRange(0, 1)), Lit(">"), End>>,
     init |-> [status |-> EnumV("Code128Status", "0"),
               fixed_symbol_length_status |-> EnumV("FixedSymbolLengthStatus", "0"),
               symbol_length |-> PyInt(10),
               ean128_status |-> EnumV("EAN128Status", "0"),
               output_format |-> EnumV("Code128OutputFormat", "0"),
               application_record_separator_status |-> EnumV("ApplicationRecordSeparatorStatus", "0"),
               application_record_separator_character |-> PyBytes(<<",">>),
               application_record_brackets |-> EnumV("ApplicationRecordBrackets", "0"),
               application_record_padding |-> EnumV("ApplicationRecordPadding", "0")],
     enc |-> <<EncValue("status"),
               EncValue("fixed_symbol_length_status"),
               EncRaw("symbol_length"),
               EncValue("ean128_status"),
               EncValue("output_format"),
               EncValue("application_record_separator_status"),
               EncRaw("application_record_separator_character"),
               EncValue("application_record_brackets"),
               EncValue("application_record_padding")>>,
     dec |-> <<DecEnum("status", 1, "Code128Status"),
               DecEnum("fixed_symbol_length_status", 2, "FixedSymbolLengthStatus"),
               DecInt("symbol_length", 3),
               DecEnum("ean128_status", 4, "EAN128Status"),
               DecEnum("output_format", 5, "Code128OutputFormat"),
               DecEnum("application_record_separator_status", 6, "ApplicationRecordSeparatorStatus"),
               DecRaw("application_record_separator_character", 7),
               DecEnum("application_record_brackets", 8, "ApplicationRecordBrackets"),
               DecEnum("application_record_padding", 9, "ApplicationRecordPadding")>>]

\* class UPC_EAN, K_PATTERN ^<K473,([0-1])?,([0-1])?,([0-2])?,([0-1])?,(.)?,,([0-1])?,([0-1])?>$
UPC_EAN ==
    [name |-> <<"U", "P", "C", "_", "E", "A", "N">>,
     K_CODE |-> <<"K", "4", "7", "3">>,
     K_PATTERN |-> Lits(<<"<", "K", "4", "7", "3", ",">>)
                  \o <<Opt(DigitRange(0, 1)), Comma,
                      Opt(DigitRange(0, 1)), Comma,
                      Opt(DigitRange(0, 2)), Comma,
                      Opt(DigitRange(0, 1)), Comma,
                      Opt(Dot), Comma,
                      Comma, Opt(DigitRange(0, 1)), Comma,
                      Opt(DigitRange(0, 1)), Lit(">"), End>>,
     init |-> [upc_status |-> EnumV("UPCStatus", "0"),
               ean_status |-> EnumV("EANStatus", "0"),
               supplementals_status |-> EnumV("SupplementalsStatus", "0"),
               separator_status |-> EnumV("SeparatorStatus", "0"),
               separator_character |-> PyStr(<<",">>),
               upc_e_output_to_upc_a |-> EnumV("UPC_EoutputAsUPC_A", "0"),
               undocumented_field |-> PyInt(0)],
     enc |-> <<EncValue("upc_status"),
               EncValue("ean_status"),
               EncValue("supplementals_status"),
               EncValue("separator_status"),
               EncRaw("separator_character"),
               EncNone,
               EncValue("upc_e_output_to_upc_a"),
               EncRaw("undocumented_field")>>,
     dec |-> <<DecEnum("upc_status", 1, "UPCStatus"),
               DecEnum("ean_status", 2, "EANStatus"),
               DecEnum("supplementals_status", 3, "SupplementalsStatus"),
               DecEnum("separator_status", 4, "SeparatorStatus"),
               DecRaw("separator_character", 5),
               DecEnum("upc_e_output_to_upc_a", 6, "UPC_EoutputAsUPC_A"),
               DecInt("undocumented_field", 7)>>]

\* class Code93, K_PATTERN ^<K475,([0-1])?,([0-1])?,([\d]{1,2})?>$
Code93 ==
    [name |-> <<"C", "o", "d", "e", "9", "3">>,
     K_CODE |-> <<"K", "4", "7", "5">>,
     K_PATTERN |-> Lits(<<"<", "K", "4", "7", "5", ",">>)
                  \o <<Opt(DigitRange(0, 1)), Comma,
                      Opt(DigitRange(0, 1)), Comma,
                      OptRep(DigitSet, 1, 2), Lit(">"), End>>,
     init |-> [status |-> EnumV("Code93Status", "0"),
               fixed_symbol_length_status |-> EnumV("FixedSymbolLengthStatus", "0"),
               fixed_symbol_length |-> PyInt(10)],
     enc |-> <<EncValue("status"),
               EncValue("fixed_symbol_length_status"),
               EncRaw("fixed_symbol_length")>>,
     dec |-> <<DecEnum("status", 1, "Code93Status"),
               DecEnum("fixed_symbol_length_status", 2, "FixedSymbolLengthStatus"),
               DecInt("fixed_symbol_length", 3)>>]

\* class NarrowMarginsAndSymbologyID, K_PATTERN ^<K450,([0-1])?,([0-1])?>$
NarrowMarginsAndSymbologyID ==
    [name |-> <<"N", "a", "r", "r", "o", "w", "M", "a", "r", "g", "i", "n", "s", "A", "n", "d", "S", "y", "m", "b", "o", "l", "o", "g", "y", "I", "D">>,
     K_CODE |-> <<"K", "4", "5", "0">>,
     K_PATTERN |-> Lits(<<"<", "K", "4", "5", "0", ",">>)
                  \o <<Opt(DigitRange(0, 1)), Comma,
                      Opt(DigitRange(0, 1)), Lit(">"), End>>,
     init |-> [narrow_margins_status |-> EnumV("NarrowMarginsStatus", "0"),
               symbology_id_status |-> EnumV("SymbologyIDStatus", "0")],
     enc |-> <<EncValue("narrow_margins_status"),
               EncValue("symbology_id_status")>>,
     dec |-> <<DecEnum("narrow_margins_status", 1, "NarrowMarginsStatus"),
               DecEnum("symbology_id_status", 2, "SymbologyIDStatus")>>]

\* class BackgroundColor, K_PATTERN ^<K451,([0-1])?>$
BackgroundColor ==
    [name |-> <<"B", "a", "c", "k", "g", "r", "o", "u", "n", "d", "C", "o", "l", "o", "r">>,
     K_CODE |-> <<"K", "4", "5", "1">>,
     K_PATTERN |-> Lits(<<"<", "K", "4", "5", "1", ",">>)
                  \o <<Opt(DigitRange(0, 1)), Lit(">"), End>>,
     init |-> [color |-> EnumV("Color", "0")],
     enc |-> <<EncValue("color")>>,
     dec |-> <<DecEnum("color", 1, "Color")>>]

\* class SymbolRatioMode, K_PATTERN ^<K452,([0-2])?,([0-2])?,([0-2])?,([0-2])?>$
SymbolRatioMode ==
    [name |-> <<"S", "y", "m", "b", "o", "l", "R", "a", "t", "i", "o", "M", "o", "d", "e">>,
     K_CODE |-> <<"K", "4", "5", "2">>,
     K_PATTERN |-> Lits(<<"<", "K", "4", "5", "2", ",">>)
                  \o <<Opt(DigitRange(0, 2)), Comma,
                      Opt(DigitRange(0, 2)), Comma,
                      Opt(DigitRange(0, 2)), Comma,
                      Opt(DigitRange(0, 2)), Lit(">"), End>>,
     init |-> [code39 |-> EnumV("SymbolRatio", "1"),
               codabar |-> EnumV("SymbolRatio", "1"),
               interleaved_2_of_5 |-> EnumV("SymbolRatio", "1"),
               code93 |-> EnumV("SymbolRatio", "1")],
     enc |-> <<EncValue("code39"),
               EncValue("codabar"),
               EncValue("interleaved_2_of_5"),
               EncValue("code93")>>,
     dec |-> <<DecEnum("code39", 1, "SymbolRatio"),
               DecEnum("codabar", 2, "SymbolRatio"),
               DecEnum("interleaved_2_of_5", 3, "SymbolRatio"),
               DecEnum("code93", 4, "SymbolRatio")>>]

REGISTRY ==
    <<HostPortConnection,
      HostProtocol,
      HostRS422Status,
      RS232AuxiliaryPort,
      Preamble,
      Postamble,
      LRC,
      InterCharacterDelay,
      Multisymbol,
      Trigger,
      ExternalTrigger,
      SerialTrigger,
      StartTriggerCharacter,
      StopTriggerCharacter,
      EndReadCycle,
      DecodesBeforeOutput,
      ScanSpeed,
      ScannerSetup,
      SymbolDetect,
      MaximumElement,
      ScanWidthEnhance,
      LaserSetup,
      Code39,
      Code128,
      UPC_EAN,
      Code93,
      NarrowMarginsAndSymbologyID,
      BackgroundColor,
      SymbolRatioMode>>

\* ------------------------------------------------------------------------
\* The codec
\* ------------------------------------------------------------------------
\* the dict lookup raises KeyError, which `except IndexError` does not catch
_serialize_baud_rate(baud_rate) ==
    IF baud_rate.t = "int" /\ \E c \in DOMAIN BAUD_RATES : BAUD_RATES[c] = baud_rate.v
    THEN Ret(PyBytes(<<CHOOSE c \in DOMAIN BAUD_RATES : BAUD_RATES[c] = baud_rate.v>>))
    ELSE Raise("KeyError")

_deserialize_baud_rate(configval) ==
    IF configval.t = "bytes" /\ \E c \in DOMAIN BAUD_RATES : configval.v = <<c>>
    THEN Ret(PyInt(BAUD_RATES[configval.v[1]]))
    ELSE Raise("KeyError")

normalize_value(val) ==
    CASE val.t = "bytes" -> val.v
      [] val.t = "none" -> <<>>
      [] val.t = "int" -> IntToStr(val.v)
      [] val.t = "str" -> val.v

RECURSIVE Join(_, _)
\* sep.join(parts)
Join(parts, sep) ==
    IF Len(parts) = 0 THEN <<>>
    ELSE IF Len(parts) = 1 THEN parts[1]
    ELSE parts[1] \o sep \o Join(Tail(parts), sep)

\* the check of the assembled string against the K_PATTERN of the class
Checked(cls, str_) ==
    IF ReMatch(cls.K_PATTERN, str_).ok
    THEN Ret(PyBytes(str_))
    ELSE Raise("InvalidConfigString")

\* KSetting.to_config_string(self, values)
KSetting_to_config_string(cls, values) ==
    Checked(cls, <<"<">> \o cls.K_CODE \o <<",">>
                 \o Join([i \in 1..Len(values) |-> normalize_value(values[i])],
                         <<",">>)
                 \o <<">">>)

\* one element of the list a setting passes to KSetting.to_config_string
EncElement(e, obj) ==
    CASE e.how = "none" -> Ret(NoneV)
      [] e.how = "raw" -> Ret(obj.f[e.f])
      [] e.how = "baud" -> _serialize_baud_rate(obj.f[e.f])
      [] e.how = "value" ->
           IF obj.f[e.f].t = "enum" THEN Ret(PyBytes(obj.f[e.f].v))
           ELSE Raise("AttributeError")

\* the first of the outcomes that is an exception
FirstRaised(els) ==
    els[CHOOSE i \in 1..Len(els) : ~els[i].ok /\ \A k \in 1..(i - 1) : els[k].ok]

\* the call of KSetting.to_config_string on the evaluated list elements
ToValues(cls, els) ==
    IF \E i \in 1..Len(els) : ~els[i].ok
    THEN Raise(FirstRaised(els).exc)
    ELSE KSetting_to_config_string(cls, [i \in 1..Len(els) |-> els[i].v])

\* <Setting>.to_config_string(self)
to_config_string(cls, obj) ==
    ToValues(cls, [i \in 1..Len(cls.enc) |-> EncElement(cls.enc[i], obj)])

\* one keyword argument of the constructor call in from_config_string
DecElement(d, cap) ==
    CASE d.how = "raw" -> Ret(cap)
      [] d.how = "baud" -> _deserialize_baud_rate(cap)
      [] d.how = "int" ->
           IF cap.t = "none" THEN Raise("TypeError")
           ELSE IF IsDigitStr(cap.v) THEN Ret(PyInt(StrToIntAcc(cap.v, 1, 0)))
           ELSE Raise("ValueError")
      [] d.how = "enum" ->
           IF cap.t = "bytes" /\ \E c \in EnumValues[d.e] : cap.v = <<c>>
           THEN Ret(EnumV(d.e, cap.v[1]))
           ELSE Raise("ValueError")

\* the constructor call of from_config_string on its evaluated arguments
FromArgs(cls, els) ==
    IF \E i \in 1..Len(els) : ~els[i].ok
    THEN Raise(FirstRaised(els).exc)
    ELSE Ret([cls |-> cls.name,
              f |-> [fld \in DOMAIN cls.init |->
                       els[CHOOSE i \in 1..Len(els) : cls.dec[i].f = fld].v]])

\* a decoder that reports a fragment outside the grammar as a bad value
FromMatchAsValue(cls, match) ==
    IF ~match.ok THEN Raise("ValueError")
    ELSE FromArgs(cls, [i \in 1..Len(cls.dec) |->
                          DecElement(cls.dec[i], match.caps[cls.dec[i].g])])

\* from_config_string after the match of the K_PATTERN
FromMatch(cls, match) ==
    IF ~match.ok THEN Raise("InvalidConfigString")
    ELSE FromArgs(cls, [i \in 1..Len(cls.dec) |->
                          DecElement(cls.dec[i], match.caps[cls.dec[i].g])])

\* <Setting>.from_config_string(cls, str_)
from_config_string(cls, str_) == FromMatch(cls, ReMatch(cls.K_PATTERN, str_))

\* a constructor that leaves every attribute None
Blank(cls) == [cls |-> cls.name, f |-> [k \in DOMAIN cls.init |-> NoneV]]

\* <Setting>()
Construct(cls) == [cls |-> cls.name, f |-> cls.init]


\* ------------------------------------------------------------------------
\* The configuration aggregate (MicroscanConfiguration)
\* ------------------------------------------------------------------------
Uppers == <<"A", "B", "C", "D", "E", "F", "G", "H", "I", "J", "K", "L", "M",
            "N", "O", "P", "Q", "R", "S", "T", "U", "V", "W", "X", "Y", "Z">>
Lowers == <<"a", "b", "c", "d", "e", "f", "g", "h", "i", "j", "k", "l", "m",
            "n", "o", "p", "q", "r", "s", "t", "u", "v", "w", "x", "y", "z">>
IsUpper(c) == \E i \in 1..26 : Uppers[i] = c
IsLower(c) == \E i \in 1..26 : Lowers[i] = c
ToLower(c) == IF IsUpper(c) THEN Lowers[CHOOSE i \in 1..26 : Uppers[i] = c] ELSE c

RECURSIVE SubCamel(_, _)
\* re.sub(r'([a-z])([A-Z])', r'\1_\2', s) from position i on
SubCamel(s, i) ==
    IF i > Len(s) THEN <<>>
    ELSE IF i < Len(s) /\ IsLower(s[i]) /\ IsUpper(s[i + 1])
         THEN <<s[i], "_", s[i + 1]>> \o SubCamel(s, i + 2)
         ELSE <<s[i]>> \o SubCamel(s, i + 1)

_clsname_to_propname(clsname) ==
    LET u == SubCamel(clsname, 1) IN [i \in 1..Len(u) |-> ToLower(u[i])]

\* the REGISTRY dict: a key keeps the class listed last for it
RegistryHas(k_code) == \E i \in 1..Len(REGISTRY) : REGISTRY[i].K_CODE = k_code
RegistryGet(k_code) ==
    REGISTRY[CHOOSE i \in 1..Len(REGISTRY) :
                /\ REGISTRY[i].K_CODE = k_code
                /\ \A j \in (i + 1)..Len(REGISTRY) : REGISTRY[j].K_CODE # k_code]
\* REGISTRY.values(), in insertion order of the keys
RegistryValues ==
    LET first == {i \in 1..Len(REGISTRY) :
                    \A j \in 1..(i - 1) : REGISTRY[j].K_CODE # REGISTRY[i].K_CODE}
        nth[n \in 1..Cardinality(first)] ==
            CHOOSE i \in first : Cardinality({j \in first : j < i}) = n - 1
    IN [n \in 1..Cardinality(first) |-> RegistryGet(REGISTRY[nth[n]].K_CODE)]

\* the attribute names of the registered settings, in the order of
\* REGISTRY.values()
PropNames ==
    [n \in 1..Len(RegistryValues) |-> _clsname_to_propname(RegistryValues[n].name)]

ClassOf(o) == REGISTRY[CHOOSE i \in 1..Len(REGISTRY) : REGISTRY[i].name = o.cls]

\* setattr(instance, prop_name, value)
SetAttr(instance, prop_name, value) == (prop_name :> value) @@ instance

RECURSIVE LoadFrom(_, _)
LoadFrom(instance, n) ==
    IF n > Len(RegistryValues) THEN instance
    ELSE LoadFrom(SetAttr(instance, PropNames[n], Construct(RegistryValues[n])),
                  n + 1)

\* a load_defaults that sets no attribute
NoDefaults(instance) == instance

\* MicroscanConfiguration.load_defaults
load_defaults(instance) == LoadFrom(instance, 1)

\* MicroscanConfiguration(): an object with no attribute, then load_defaults
NewConfiguration == load_defaults(<<>>)

\* re.compile(b'<(K\d+)(.*)>')
_K_CODE_PATTERN ==
    <<Lit("<"), Grp(FALSE, << <<Atom({"K"}, 1, 1), Atom(DigitSet, 1, Inf)>> >>),
      Grp(FALSE, << <<Atom(Dot, 0, Inf)>> >>), Lit(">")>>

\* an assignment that passes over a line whatever exception its decoding
\* raised
AssignLenient(instance, list_of_strings, n, serializer, r) ==
    IF r.ok
    THEN Ret(SetAttr(instance, _clsname_to_propname(serializer.name), r.v))
    ELSE Ret(instance)

\* an assignment that keeps what an earlier line of the list put in the slot
AssignFirst(instance, list_of_strings, n, serializer, r) ==
    IF r.ok
    THEN Ret(IF instance[_clsname_to_propname(serializer.name)] = Construct(serializer)
             THEN SetAttr(instance, _clsname_to_propname(serializer.name), r.v)
             ELSE instance)
    ELSE IF r.exc = "KeyError"
    THEN Ret(instance)
    ELSE Raise(r.exc)

\* setattr(instance, prop_name, serializer.from_config_string(line)): a
\* KeyError is logged and the line skipped, any other exception leaves
\* from_config_strings
Assign(instance, list_of_strings, n, serializer, r) ==
    IF r.ok
    THEN Ret(SetAttr(instance, _clsname_to_propname(serializer.name), r.v))
    ELSE IF r.exc = "KeyError"
    THEN Ret(instance)
    ELSE Raise(r.exc)

\* what one line comes to before anything is assigned: match.group(1) on
\* no match raises AttributeError, REGISTRY[k_code] on an unregistered code
\* raises KeyError, and otherwise serializer.from_config_string(line)
Lookup(list_of_strings, n, match) ==
    IF ~match.ok THEN Raise("AttributeError")
    ELSE IF ~RegistryHas(match.caps[1].v) THEN Raise("KeyError")
    ELSE from_config_string(RegistryGet(match.caps[1].v), list_of_strings[n])

\* for every line, its match of _K_CODE_PATTERN and its lookup; neither
\* depends on the instance, and a line after one that raises is never used
Looked(list_of_strings) ==
    <<>> \o [n \in 1..Len(list_of_strings) |->
               CHOOSE l \in {[match |-> match, r |-> Lookup(list_of_strings, n, match)] :
                               match \in {ReMatch(_K_CODE_PATTERN, list_of_strings[n])}} : TRUE]

\* one pass of the loop: the instance after it, or the exception that
\* leaves the loop; a line without a K-code or with an unregistered one is
\* skipped
Line(instance, list_of_strings, n, l) ==
    IF ~l.match.ok
    THEN Ret(instance)
    ELSE IF ~RegistryHas(l.match.caps[1].v)
    THEN Ret(instance)
    ELSE Assign(instance, list_of_strings, n, RegistryGet(l.match.caps[1].v), l.r)

RECURSIVE Passes(_, _, _, _, _)
\* the passes of the loop for the lines lo to hi, one after the other until
\* one raises; the run of passes is taken in two halves, the second on the
\* instance the first one left, which keeps the nesting of the evaluation
\* shallow for long lists
Passes(instance, list_of_strings, looked, lo, hi) ==
    IF lo > hi THEN Ret(instance)
    ELSE IF lo = hi
    THEN Line(instance, list_of_strings, lo, looked[lo])
    ELSE CHOOSE out \in
             {IF first.ok
              THEN Passes(first.v, list_of_strings, looked, ((lo + hi) \div 2) + 1, hi)
              ELSE first :
                first \in {Passes(instance, list_of_strings, looked, lo,
                                  (lo + hi) \div 2)}} : TRUE

\* the loop of from_config_strings from line n on
FromLines(instance, list_of_strings, n) ==
    CHOOSE out \in {Passes(instance, list_of_strings, looked, n, Len(list_of_strings)) :
                      looked \in {Looked(list_of_strings)}} : TRUE

\* a lookup that gives up at the first fragment it cannot attribute
StrictLookup(list_of_strings, defaults) ==
    IF \E i \in 1..Len(list_of_strings) :
          LET match == ReMatch(_K_CODE_PATTERN, list_of_strings[i])
          IN ~match.ok \/ ~RegistryHas(match.caps[1].v)
    THEN Raise("KeyError")
    ELSE FromLines(IF defaults THEN load_defaults(NewConfiguration)
                   ELSE NewConfiguration, list_of_strings, 1)

\* MicroscanConfiguration.from_config_strings(list_of_strings, defaults)
from_config_strings(list_of_strings, defaults) ==
    FromLines(IF defaults THEN load_defaults(NewConfiguration) ELSE NewConfiguration,
              list_of_strings, 1)

\* a join that ends every fragment with the separator
JoinTrailing(parts, separator) ==
    IF \E n \in 1..Len(parts) : ~parts[n].ok
    THEN Raise(FirstRaised(parts).exc)
    ELSE Ret(PyBytes(Join([n \in 1..Len(parts) |-> parts[n].v.v \o separator], <<>>)))

\* separator.join of the fragments, or the first exception among them
JoinParts(parts, separator) ==
    IF \E n \in 1..Len(parts) : ~parts[n].ok
    THEN Raise(FirstRaised(parts).exc)
    ELSE Ret(PyBytes(Join([n \in 1..Len(parts) |-> parts[n].v.v], separator)))

\* the fragments of the given populated slots
Fragments_of(self, props, separator) ==
    JoinParts([n \in 1..Len(props) |->
                 to_config_string(ClassOf(self[props[n]]), self[props[n]])],
              separator)

\* the slots of which to_config_string takes a fragment: getattr(self, name,
\* None) is neither the default None of a missing attribute nor a None that
\* was assigned
Populated(self) ==
    SelectSeq(PropNames, LAMBDA p : IF p \in DOMAIN self THEN self[p] # NoneV ELSE FALSE)

\* MicroscanConfiguration.to_config_string(separator)
Configuration_to_config_string(self, separator) ==
    Fragments_of(self, Populated(self), separator)

\* ------------------------------------------------------------------------
\* Byte-string helpers used by the driver
\* ------------------------------------------------------------------------
RECURSIVE FindK(_, _)
\* re.findall(b'<K[^>]*>', s) from position i on
FindK(s, i) ==
    IF i + 2 > Len(s) THEN <<>>
    ELSE IF s[i] = "<" /\ s[i + 1] = "K" /\ \E j \in (i + 2)..Len(s) : s[j] = ">"
         THEN LET j == CHOOSE j \in (i + 2)..Len(s) :
                          s[j] = ">" /\ \A k \in (i + 2)..(j - 1) : s[k] # ">"
              IN <<SubSeq(s, i, j)>> \o FindK(s, j + 1)
         ELSE FindK(s, i + 1)

RECURSIVE SplitCRLF(_, _, _)
\* s.split(b'\r\n'): the segments of s from position i on, start being the
\* first position of the segment in progress
SplitCRLF(s, start, i) ==
    IF i > Len(s) THEN <<SubSeq(s, start, Len(s))>>
    ELSE IF i < Len(s) /\ s[i] = CR /\ s[i + 1] = NL
         THEN <<SubSeq(s, start, i - 1)>> \o SplitCRLF(s, i + 2, i + 2)
         ELSE SplitCRLF(s, start, i + 1)

Whitespace == {" ", "\t", NL, CR}

\* bytes.strip()
Strip(s) ==
    LET keep == {i \in 1..Len(s) : s[i] \notin Whitespace} IN
    IF keep = {} THEN <<>>
    ELSE SubSeq(s, CHOOSE i \in keep : \A k \in keep : i <= k,
                   CHOOSE i \in keep : \A k \in keep : i >= k)

\* bool(x) for the values a setting field holds
Truthy(x) ==
    CASE x.t = "none" -> FALSE
      [] x.t = "int" -> x.v # 0
      [] x.t \in {"bytes", "str"} -> Len(x.v) > 0
      [] x.t = "enum" -> TRUE

\* bytes([int(as_hex, 16)]): the byte is written by its two hex digits
HexByte(as_hex) == "\\x" \o ToLower(as_hex[1]) \o ToLower(as_hex[2])

\* ------------------------------------------------------------------------
\* The values a field may take within the documented domain of its setting
\* ------------------------------------------------------------------------
\* inclusive bounds of the integer fields, from each class's is_valid (from
\* the class's K_PATTERN where is_valid states no bound)
IntBounds ==
    [delay |-> <<0, 255>>,
     number_of_symbols |-> <<0, 5>>,
     trigger_filter_duration |-> <<0, 65535>>,
     ready_cycle_timeout |-> <<0, 65535>>,
     number_before_output |-> <<1, 255>>,
     scan_speed |-> <<30, 100>>,
     gain_level |-> <<40, 255>>,
     agc_min |-> <<40, 250>>,
     agc_max |-> <<60, 255>>,
     transition_counter |-> <<0, 255>>,
     maximum_element |-> <<0, 65535>>,
     laser_on_position |-> <<10, 80>>,
     laser_off_position |-> <<20, 95>>,
     symbol_length |-> <<1, 64>>,
     fixed_symbol_length |-> <<1, 64>>,
     undocumented_field |-> <<0, 1>>]

\* character runs for the character-valued fields, each within the length
\* its K_PATTERN allows
CharRuns ==
    [daisy_chain_id |-> {<<"A", "B">>, <<"1">>},
     characters |-> {<<"1", "2", "A", "B">>, <<"X">>},
     multisymbol_separator |-> {<<"|">>, <<"+">>},
     serial_trigger_character |-> {<<"=">>, <<"t">>},
     start_trigger_character |-> {<<"0", "1">>, <<"a", "F">>},
     stop_trigger_character |-> {<<"0", "2">>, <<"9", "9">>},
     application_record_separator_character |-> {<<"|">>, <<"^", "A", "^", "_", "]">>},
     separator_character |-> {<<"|">>, <<"+">>}]

\* how many fields of an instance differ from the constructor default
MaxVaried == 2

FieldValues(cls, d) ==
    {cls.init[d.f]} \cup
    CASE d.how = "enum" -> {EnumV(d.e, c) : c \in EnumValues[d.e]}
      [] d.how = "baud" -> {PyInt(BAUD_RATES[c]) : c \in DOMAIN BAUD_RATES}
      [] d.how = "int" -> {PyInt(IntBounds[d.f][1]), PyInt(IntBounds[d.f][2])}
      [] d.how = "raw" -> {PyBytes(s) : s \in CharRuns[d.f]} \cup
                          {PyStr(s) : s \in CharRuns[d.f]} \cup {NoneV}

DecOf(cls, fld) == cls.dec[CHOOSE i \in 1..Len(cls.dec) : cls.dec[i].f = fld]

RECURSIVE Vary(_, _)
\* the instances of a setting that differ from the default-constructed one
\* in at most n fields
Vary(cls, n) ==
    IF n = 0 THEN {Construct(cls)}
    ELSE LET prev == Vary(cls, n - 1) IN
         prev \cup UNION {{[o EXCEPT !.f[cls.dec[i].f] = v] : v \in FieldValues(cls, cls.dec[i])} :
                            o \in prev, i \in 1..Len(cls.dec)}

Instances(cls) == Vary(cls, MaxVaried)

\* ------------------------------------------------------------------------
\* Bounds and inputs of the session model
\* ------------------------------------------------------------------------
\* serial.Serial objects one session may create
MaxHandles == 2
\* bytes of barcode data the device may have put in the input buffer
MaxBuf == 6
\* the largest timeout, in passes of the polling loop, a caller passes to
\* read_config
MaxTimeoutArg == 2
\* passes of the polling loop after which an answer of the device that has
\* not arrived yet arrives only after the loop
MaxDelay == 2

\* time in hundredths of a second
SleepCs == 10
DefaultTimeoutCs == 200
\* time one pass of the loop takes besides the sleep: more than nothing
OverheadCs == 1
TimeoutArgs == {0, MaxTimeoutArg * SleepCs}

B_I == <<"<", "I", ">">>
B_H == <<"<", "H", ">">>
B_KQ == <<"<", "K", "?", ">">>
CRLF == <<CR, NL>>

F_K200 == <<"<", "K", "2", "0", "0", ",", "4", ",", "2", "4", "4", ">">>
F_K201 == <<"<", "K", "2", "0", "1", ",", "t", ">">>
F_K229 == <<"<", "K", "2", "2", "9", ",", "2", "A", ">">>
F_K999 == <<"<", "K", "9", "9", "9", ",", "1", ">">>
F_K100bad == <<"<", "K", "1", "0", "0", ",", "9", ",", "0", ",", "0", ",", "0", ">">>
F_K200short == <<"<", "K", "2", "0", "0", ",", "4", ">">>
F_K200other == <<"<", "K", "2", "0", "0", ",", "1", ",", "7", ">">>
F_K229other == <<"<", "K", "2", "2", "9", ",", "0", "d", ">">>
F_K222gt == <<"<", "K", "2", "2", "2", ",", "1", ",", ">", ">">>
F_K222lt == <<"<", "K", "2", "2", "2", ",", "1", ",", "<", ">">>
F_K222comma == <<"<", "K", "2", "2", "2", ",", "1", ",", ",", ">">>
F_K201gt == <<"<", "K", "2", "0", "1", ",", ">", ">">>

\* what the device may answer to <K?>, as the chunks in which it arrives:
\* nothing; serial trigger mode with a start trigger character; a fragment
\* that violates its grammar; an unregistered setting, then serial trigger
\* mode with a serial trigger character, cut in the middle of a fragment
Responses ==
    { <<>>,
      <<F_K200, F_K229>>,
      <<F_K100bad>>,
      <<F_K999 \o SubSeq(F_K200, 1, 7), SubSeq(F_K200, 8, Len(F_K200)) \o F_K201>> }

\* barcode data as the device sends it: a symbol with its postamble, or the
\* first part of a symbol
BarcodeChunks == {<<"A">> \o CRLF, <<"B">> \o CRLF, <<"A">>}

\* the bytes a caller passes to write()
WriteInputs == {PyBytes(<<"*">>), PyStr(B_H)}

\* trigger modes a caller sets on a configuration object it holds
MutationModes == {"4"}

ObjIds == {1, 2}
Free == <<>>

P_trigger == <<"t", "r", "i", "g", "g", "e", "r">>
P_start_trigger_character ==
    <<"s", "t", "a", "r", "t", "_", "t", "r", "i", "g", "g", "e", "r", "_",
      "c", "h", "a", "r", "a", "c", "t", "e", "r">>
P_serial_trigger ==
    <<"s", "e", "r", "i", "a", "l", "_", "t", "r", "i", "g", "g", "e", "r">>
SerialData == EnumV("TriggerMode", "4")

\* ------------------------------------------------------------------------
\* State
\* ------------------------------------------------------------------------
VARIABLES
    setting,    \* codec: index in REGISTRY of the setting class under test
    obj,        \* codec: the setting instance
    wire,       \* codec: outcome of obj.to_config_string()
    back,       \* codec: outcome of from_config_string on the fragment
    cpc,        \* codec: "new", "encoded", "decoded"
    variant,    \* codec: how the fragment under decode differs from the
                \* encoding of the default instance
    batch,      \* aggregate: the list passed to from_config_strings
    bdefaults,  \* aggregate: the defaults argument
    bout,       \* aggregate: outcome of from_config_strings
    bpc,        \* aggregate: "new", "done", "serialized"
    agg,        \* aggregate: the configuration object the caller holds
    bsep,       \* aggregate: the separator argument of to_config_string
    bblob,      \* aggregate: outcome of to_config_string on agg
    bagain,     \* aggregate: outcome of to_config_string on the
                \* configuration built from the fragments found in bblob
    port,       \* session: self.port, 0 while the attribute does not exist
    handles,    \* session: is_open of every serial.Serial object created
    _config,    \* session: self._config, an object id, 0 for None
    heap,       \* the MicroscanConfiguration objects alive, by object id
    held,       \* caller: the configuration object it was handed last, or 0
    inbuf,      \* transport: the bytes waiting in the input buffer
    written,    \* transport: the writes of the current or last call
    devq,       \* device: the chunks of its <K?> answer still to arrive
    suspended,  \* device: scanning suspended by <I>
    pc,         \* session: "idle", "rc_poll", "rc_read", "rb_readline"
    frame,      \* session: the locals of the call in progress
    last        \* session: how the call ended that the last step finished

codecVars == <<setting, obj, wire, back, cpc, variant>>
batchVars == <<batch, bdefaults, bout, bpc, agg, bsep, bblob, bagain>>
objVars == <<_config, heap, held>>
devVars == <<inbuf, written, devq, suspended>>
sessionVars == <<port, handles, objVars, devVars, pc, frame, last>>
vars == <<codecVars, batchVars, sessionVars>>

NoOutcome == Raise("")
NoVariant == [kind |-> "", slot |-> 0]
NoFrame == [op |-> "", timeout |-> 0, polls |-> 0, prev_buffer_size |-> 0,
            buffer_size |-> 0, branch |-> "", buffer_contents |-> <<>>]
Ended(op, exc, ret) == [op |-> op, exc |-> exc, ret |-> ret]
Failed(op, exc) == Ended(op, exc, NoneV)
Done(op) == Ended(op, "", NoneV)
NoCall == Done("")

IdleCodec ==
    /\ setting = 0
    /\ obj = NoneV
    /\ wire = NoOutcome
    /\ back = NoOutcome
    /\ cpc = "off"
    /\ variant = NoVariant

IdleBatch ==
    /\ batch = <<>>
    /\ bdefaults = FALSE
    /\ bout = NoOutcome
    /\ bpc = "off"
    /\ agg = <<>>
    /\ bsep = <<>>
    /\ bblob = NoOutcome
    /\ bagain = NoOutcome

\* MicroscanDriver.__init__: no port attribute, no configuration
InitSession ==
    /\ port = 0
    /\ handles = <<>>
    /\ _config = 0
    /\ heap = [i \in ObjIds |-> Free]
    /\ held = 0
    /\ inbuf = <<>>
    /\ written = <<>>
    /\ devq = <<>>
    /\ suspended = FALSE
    /\ pc = "idle"
    /\ frame = NoFrame
    /\ last = NoCall

\* ------------------------------------------------------------------------
\* Codec: encode an instance, decode the fragment it produced
\* ------------------------------------------------------------------------
InitCodec ==
    /\ setting \in 1..Len(REGISTRY)
    /\ obj \in Instances(REGISTRY[setting])
    /\ wire = NoOutcome
    /\ back = NoOutcome
    /\ cpc = "new"
    /\ variant = NoVariant
    /\ IdleBatch
    /\ InitSession

Encode ==
    /\ cpc = "new"
    /\ wire' = to_config_string(REGISTRY[setting], obj)
    /\ cpc' = "encoded"
    /\ UNCHANGED <<setting, obj, back, variant, batchVars, sessionVars>>

Decode ==
    /\ cpc = "encoded"
    /\ wire.ok
    /\ back' = from_config_string(REGISTRY[setting], wire.v.v)
    /\ cpc' = "decoded"
    /\ UNCHANGED <<setting, obj, wire, variant, batchVars, sessionVars>>

NextCodec == Encode \/ Decode
SpecCodec == InitCodec /\ [][NextCodec]_vars

OutsideValues(d) ==
    CASE d.how = "raw" -> {PyBytes(<<">", "A", "B">>), PyBytes(<<"A", "B", "C", "D", "E">>)}
      [] d.how = "int" -> {PyInt(100000), PyInt(-1)}
      [] d.how = "baud" -> {PyInt(1234)}
      [] d.how = "enum" -> {NoneV}

\* the instances that differ from the default-constructed one in one field,
\* which holds a value outside the domain
Outside(cls) ==
    UNION {{[Construct(cls) EXCEPT !.f[cls.dec[i].f] = v] : v \in OutsideValues(cls.dec[i])} :
             i \in 1..Len(cls.dec)}

InitEncode ==
    /\ setting \in 1..Len(REGISTRY)
    /\ obj \in Instances(REGISTRY[setting]) \cup Outside(REGISTRY[setting])
    /\ wire = NoOutcome
    /\ back = NoOutcome
    /\ cpc = "new"
    /\ variant = NoVariant
    /\ IdleBatch
    /\ InitSession

NextEncode == Encode
SpecEncode == InitEncode /\ [][NextEncode]_vars

\* the grammar matches the string from its first to its last character
Whole(pattern, str_) == ReMatch(pattern \o <<End>>, str_).ok

\* C13: a fragment that to_config_string returns matches the grammar of
\* its setting from the first to the last character, and an encoding that
\* failed on the grammar failed with InvalidConfigString
C13_EncodeSafetyNet ==
    cpc = "encoded" =>
        /\ wire.ok => Whole(REGISTRY[setting].K_PATTERN, wire.v.v)
        /\ (/\ ~wire.ok
            /\ \A i \in 1..Len(REGISTRY[setting].enc) :
                  EncElement(REGISTRY[setting].enc[i], obj).ok)
              => wire.exc = "InvalidConfigString"

\* ------------------------------------------------------------------------
\* Baud rates: the two conversions between bits per second and wire digit
\* ------------------------------------------------------------------------
MaxRateStep == 192

\* bits-per-second values: the multiples of 600 up to 115200, which hold the
\* nine values of the table, and a value between two of them
Rates == {PyInt(600 * k) : k \in 0..MaxRateStep} \cup {PyInt(1234), NoneV}
\* wire values: every single character, and two digits
ConfigVals == {PyBytes(<<c>>) : c \in Chars} \cup {PyBytes(<<"1", "0">>), PyBytes(<<>>)}

InitBaud ==
    /\ setting = 0
    /\ obj \in Rates \cup ConfigVals
    /\ wire = NoOutcome
    /\ back = NoOutcome
    /\ cpc = "new"
    /\ variant = NoVariant
    /\ IdleBatch
    /\ InitSession

SerializeBaud ==
    /\ cpc = "new"
    /\ obj \in Rates
    /\ wire' = _serialize_baud_rate(obj)
    /\ cpc' = "serialized"
    /\ UNCHANGED <<setting, obj, back, variant, batchVars, sessionVars>>

DeserializeBaud ==
    /\ cpc = "new"
    /\ obj \in ConfigVals
    /\ back' = _deserialize_baud_rate(obj)
    /\ cpc' = "deserialized"
    /\ UNCHANGED <<setting, obj, wire, variant, batchVars, sessionVars>>

NextBaud == SerializeBaud \/ DeserializeBaud
SpecBaud == InitBaud /\ [][NextBaud]_vars

InTable(val) ==
    \/ val.t = "int" /\ \E c \in DOMAIN BAUD_RATES : BAUD_RATES[c] = val.v
    \/ val.t = "bytes" /\ \E c \in DOMAIN BAUD_RATES : val.v = <<c>>

\* C15: a bits-per-second value that is not in the table fails to serialize
\* with ValueError, and a wire value that is not a key of the table fails to
\* deserialize with ValueError
C15_UnknownBaudRate ==
    /\ (cpc = "serialized" /\ ~InTable(obj)) => (~wire.ok /\ wire.exc = "ValueError")
    /\ (cpc = "deserialized" /\ ~InTable(obj)) => (~back.ok /\ back.exc = "ValueError")

\* values of the table convert, each to its counterpart
BaudTableConverts ==
    /\ (cpc = "serialized" /\ InTable(obj)) =>
          (wire.ok /\ BAUD_RATES[wire.v.v[1]] = obj.v)
    /\ (cpc = "deserialized" /\ InTable(obj)) =>
          (back.ok /\ back.v.v = BAUD_RATES[obj.v[1]])

\* ------------------------------------------------------------------------
\* Decoder: decode fragments that differ in one place from the encoding of
\* the default instance
\* ------------------------------------------------------------------------
\* the values between the commas of the fragment of the default instance
DefaultFields(cls) ==
    [i \in 1..Len(cls.enc) |-> normalize_value(EncElement(cls.enc[i], Construct(cls)).v)]

\* what the grammar has in slot i: an enumerated digit, a digit of the baud
\* rate table, a number, a run of characters, or nothing ever
SlotKind(cls, i) ==
    CASE cls.enc[i].how = "value" -> "enum"
      [] cls.enc[i].how = "baud" -> "baud"
      [] cls.enc[i].how = "none" -> "blank"
      [] cls.enc[i].how = "raw" ->
           IF DecOf(cls, cls.enc[i].f).how = "int" THEN "int" ELSE "chars"

\* the digits slot i may hold
SlotDigits(cls, i) ==
    IF SlotKind(cls, i) = "baud" THEN DOMAIN BAUD_RATES
    ELSE EnumValues[DecOf(cls, cls.enc[i].f).e]

\* one field too few, one field too many, a digit outside the enumeration,
\* a letter for a number, an empty slot
Variants(cls) ==
    {[kind |-> "more", slot |-> 0]}
    \cup (IF Len(cls.enc) > 1 THEN {[kind |-> "fewer", slot |-> 0]} ELSE {})
    \cup {[kind |-> "digit", slot |-> i] :
             i \in {k \in 1..Len(cls.enc) : /\ SlotKind(cls, k) \in {"enum", "baud"}
                                           /\ "9" \notin SlotDigits(cls, k)}}
    \cup {[kind |-> "letter", slot |-> i] :
             i \in {k \in 1..Len(cls.enc) : SlotKind(cls, k) = "int"}}
    \cup {[kind |-> "empty", slot |-> i] :
             i \in {k \in 1..Len(cls.enc) : SlotKind(cls, k) # "blank"}}

Altered(fields, v) ==
    CASE v.kind = "more" -> Append(fields, <<"0">>)
      [] v.kind = "fewer" -> SubSeq(fields, 1, Len(fields) - 1)
      [] v.kind = "digit" -> [fields EXCEPT ![v.slot] = <<"9">>]
      [] v.kind = "letter" -> [fields EXCEPT ![v.slot] = <<"x">>]
      [] v.kind = "empty" -> [fields EXCEPT ![v.slot] = <<>>]

\* b'<%s,%s>' % (K_CODE, b','.join(fields))
FragmentOf(cls, fields) ==
    <<"<">> \o cls.K_CODE \o <<",">> \o Join(fields, <<",">>) \o <<">">>

InitDecode ==
    /\ setting \in 1..Len(REGISTRY)
    /\ obj = Construct(REGISTRY[setting])
    /\ variant \in Variants(REGISTRY[setting])
    /\ wire = Ret(PyBytes(FragmentOf(REGISTRY[setting],
                                     Altered(DefaultFields(REGISTRY[setting]), variant))))
    /\ back = NoOutcome
    /\ cpc = "encoded"
    /\ IdleBatch
    /\ InitSession

NextDecode == Decode
SpecDecode == InitDecode /\ [][NextDecode]_vars

\* the setting has a slot for a run of characters, which may hold a comma
HasChars(cls) == \E i \in 1..Len(cls.enc) : SlotKind(cls, i) = "chars"

Rejected == ~back.ok /\ back.exc = "InvalidConfigString"

\* C12, as the specification states it: a fragment with a field too many
\* or too few, with a digit outside the enumeration of its slot or with a
\* letter in a numeric slot is rejected with InvalidConfigString, whatever
\* the setting
C12_GrammarRejection ==
    (cpc = "decoded" /\ variant.kind \in {"more", "fewer", "digit", "letter"})
        => Rejected

\* C12, as the code has it: the digit outside the enumeration and the
\* letter in a numeric slot are rejected with InvalidConfigString by every
\* setting; the field too many or too few is rejected by the settings
\* without a slot for characters, HostProtocol excepted, whose grammar
\* takes any further parameters
C12_RejectsDigitsAndLetters ==
    cpc = "decoded" =>
        /\ variant.kind \in {"digit", "letter"} => Rejected
        /\ (/\ variant.kind \in {"more", "fewer"}
            /\ ~HasChars(REGISTRY[setting])
            /\ REGISTRY[setting] # HostProtocol) => Rejected
        /\ (variant.kind = "more" /\ REGISTRY[setting] = HostProtocol)
              => back.ok /\ back.v.f = obj.f

\* a letter stood in a numeric slot of ScannerSetup and the fragment was
\* rejected
C12_Witness ==
    /\ cpc = "decoded"
    /\ REGISTRY[setting] = ScannerSetup
    /\ variant.kind = "letter"
    /\ Rejected

\* C14: a fragment in which one slot is empty and which the grammar of its
\* setting accepts is decoded, and the field of the empty slot is None
C14_EmptyIsNone ==
    (/\ cpc = "decoded"
     /\ variant.kind = "empty"
     /\ ReMatch(REGISTRY[setting].K_PATTERN, wire.v.v).ok)
        => /\ back.ok
           /\ back.v.f[REGISTRY[setting].enc[variant.slot].f] = NoneV

\* ------------------------------------------------------------------------
\* Aggregate: build a configuration from a batch of fragments
\* ------------------------------------------------------------------------
\* fragments one batch may hold
MaxBatch == 3

\* well-formed fragments of registered settings
WellFormed == {F_K200, F_K229}
\* fragments whose identifier is not in the registry
Unregistered == {F_K999}
\* fragments in which no identifier can be found
NoIdentifier == {B_I, B_KQ}
\* fragments of a registered setting that violate its grammar
Malformed == {F_K100bad, F_K200short}
Fragments == WellFormed \cup Unregistered \cup NoIdentifier \cup Malformed

RECURSIVE Batches(_)
Batches(n) ==
    IF n = 0 THEN {<<>>}
    ELSE LET shorter == Batches(n - 1)
         IN shorter \cup {Append(b, f) : b \in {s \in shorter : Len(s) = n - 1},
                                         f \in Fragments}

InitBatch ==
    /\ batch \in Batches(MaxBatch)
    /\ bdefaults \in BOOLEAN
    /\ bout = NoOutcome
    /\ bpc = "new"
    /\ agg = <<>>
    /\ bsep = <<>>
    /\ bblob = NoOutcome
    /\ bagain = NoOutcome
    /\ IdleCodec
    /\ InitSession

Build ==
    /\ bpc = "new"
    /\ bout' = from_config_strings(batch, bdefaults)
    /\ agg' = IF bout'.ok THEN bout'.v ELSE <<>>
    /\ bpc' = "done"
    /\ UNCHANGED <<batch, bdefaults, bsep, bblob, bagain, codecVars, sessionVars>>

NextBatch == Build
SpecBatch == InitBatch /\ [][NextBatch]_vars

\* the batch without its fragments that have no or no registered identifier
Known(list) == SelectSeq(list, LAMBDA f : f \notin Unregistered \cup NoIdentifier)
HasMalformed(list) == \E i \in 1..Len(list) : list[i] \in Malformed

C11_MalformedFatal ==
    (bpc = "done" /\ HasMalformed(batch))
        => /\ ~bout.ok
           /\ bout.exc = "InvalidConfigString"
           /\ bout.v = NoneV

\* the fragment that violates its grammar is the last of a batch, after a
\* well-formed and a skipped one
C11_Witness ==
    /\ bpc = "done"
    /\ Len(batch) = 3
    /\ batch[1] \in WellFormed
    /\ batch[2] \in Unregistered
    /\ batch[3] = F_K200short
    /\ bout.exc = "InvalidConfigString"

\* the identifier of the class of which each slot of cfg holds an instance,
\* none for a slot that holds no instance
CodeOf(cfg) ==
    [p \in DOMAIN cfg |-> IF "cls" \in DOMAIN cfg[p] THEN ClassOf(cfg[p]).K_CODE ELSE <<>>]

\* every registered identifier has one slot, the one named after its
\* class, which holds an instance of its class
OneSlotEach(cfg) ==
    LET code == CodeOf(cfg)
    IN \A i \in 1..Len(REGISTRY) :
          /\ Cardinality({p \in DOMAIN cfg : code[p] = REGISTRY[i].K_CODE}) = 1
          /\ _clsname_to_propname(RegistryGet(REGISTRY[i].K_CODE).name) \in DOMAIN cfg
          /\ cfg[_clsname_to_propname(RegistryGet(REGISTRY[i].K_CODE).name)].cls
                = RegistryGet(REGISTRY[i].K_CODE).name

\* the configurations that the constructor and load_defaults leave
DefaultsPopulated ==
    /\ OneSlotEach(NewConfiguration)
    /\ OneSlotEach(load_defaults(NewConfiguration))

\* C16: after construction, after load_defaults and in every configuration
\* that from_config_strings returns, with defaults true or false, every
\* registered identifier has exactly one slot, and the slot holds an
\* instance of the class registered for the identifier
C16_EverySlotPopulated ==
    /\ DefaultsPopulated
    /\ (bpc = "done" /\ bout.ok) => OneSlotEach(bout.v)

\* a configuration built without defaults from a batch that overwrites two
\* slots
C16_Witness ==
    /\ bpc = "done"
    /\ bout.ok
    /\ ~bdefaults
    /\ batch = <<F_K200, F_K229>>
    /\ bout.v[P_trigger] # Construct(RegistryGet(<<"K", "2", "0", "0">>))
    /\ bout.v[P_trigger].cls = RegistryGet(<<"K", "2", "0", "0">>).name
    /\ Cardinality(DOMAIN bout.v) = Len(REGISTRY)

\* ------------------------------------------------------------------------
\* Aggregate: batches with several fragments of one setting
\* ------------------------------------------------------------------------
\* two fragments each of two settings, a fragment that is skipped and one
\* that violates its grammar
Rivals == {F_K200, F_K200other, F_K229, F_K229other, F_K999, F_K200short}

RECURSIVE ListsOf(_, _)
\* the lists of at most n elements of S
ListsOf(S, n) ==
    IF n = 0 THEN {<<>>}
    ELSE LET shorter == ListsOf(S, n - 1)
         IN shorter \cup {Append(b, f) : b \in {l \in shorter : Len(l) = n - 1}, f \in S}

InitRivals ==
    /\ batch \in ListsOf(Rivals, MaxBatch)
    /\ bdefaults \in BOOLEAN
    /\ bout = NoOutcome
    /\ bpc = "new"
    /\ agg = <<>>
    /\ bsep = <<>>
    /\ bblob = NoOutcome
    /\ bagain = NoOutcome
    /\ IdleCodec
    /\ InitSession

NextRivals == Build
SpecRivals == InitRivals /\ [][NextRivals]_vars

\* the identifier each fragment of the list carries, none where
\* _K_CODE_PATTERN finds none
Carried(list) ==
    [i \in 1..Len(list) |->
        IF ReMatch(_K_CODE_PATTERN, list[i]).ok
        THEN ReMatch(_K_CODE_PATTERN, list[i]).caps[1].v
        ELSE <<>>]

\* the instance a configuration built from the list holds for the n-th
\* registered setting: the decoding of the last fragment that carries its
\* identifier, the default instance when none does
LastWins(list, codes, n) ==
    LET at == {i \in 1..Len(list) : codes[i] = RegistryValues[n].K_CODE}
    IN IF at = {} THEN Construct(RegistryValues[n])
       ELSE from_config_string(RegistryValues[n],
                               list[CHOOSE i \in at : \A j \in at : j <= i]).v

\* C23: in a configuration that from_config_strings returns, with defaults
\* true or false, every slot holds the decoding of the last fragment of the
\* batch that carries the identifier of the slot, and the default instance
\* when no fragment carries it
C23_LastFragmentWins ==
    (bpc = "done" /\ bout.ok)
        => \A n \in 1..Len(RegistryValues) :
              bout.v[PropNames[n]] = LastWins(batch, Carried(batch), n)

\* two different fragments of one setting around a fragment of another:
\* the slot holds the decoding of the later of the two
C23_Witness ==
    /\ bpc = "done"
    /\ bout.ok
    /\ batch = <<F_K200, F_K229, F_K200other>>
    /\ bout.v[P_trigger] = from_config_string(RegistryGet(<<"K", "2", "0", "0">>), F_K200other).v
    /\ bout.v[P_trigger] # from_config_string(RegistryGet(<<"K", "2", "0", "0">>), F_K200).v
    /\ bout.v[P_serial_trigger] = Construct(RegistryGet(<<"K", "2", "0", "1">>))

\* ------------------------------------------------------------------------
\* Aggregate: serialize a configuration the caller holds
\* ------------------------------------------------------------------------
\* fragments in the batch a serialized configuration was built from
MaxBuilt == 1

\* the separator arguments: the default, one byte, two bytes
Separators == {<<>>, <<NL>>, <<CR, NL>>}
\* the slots the caller empties: the first and the last of the registry
\* order, and one between them
Emptied == {PropNames[1], P_trigger, PropNames[Len(PropNames)]}

InitAggregate ==
    /\ batch \in Batches(MaxBuilt)
    /\ bdefaults \in BOOLEAN
    /\ bout = NoOutcome
    /\ bpc = "new"
    /\ agg = <<>>
    /\ bsep = <<>>
    /\ bblob = NoOutcome
    /\ bagain = NoOutcome
    /\ IdleCodec
    /\ InitSession

\* the caller assigns None to a slot, or deletes the attribute
Unset ==
    /\ bpc = "done"
    /\ bout.ok
    /\ \E p \in Emptied, del \in BOOLEAN :
          /\ p \in DOMAIN agg
          /\ agg[p] # NoneV
          /\ agg' = IF del THEN [q \in DOMAIN agg \ {p} |-> agg[q]]
                    ELSE SetAttr(agg, p, NoneV)
    /\ UNCHANGED <<batch, bdefaults, bout, bpc, bsep, bblob, bagain, codecVars, sessionVars>>

Serialize ==
    /\ bpc = "done"
    /\ bout.ok
    /\ \E separator \in Separators :
          /\ bsep' = separator
          /\ bblob' = Configuration_to_config_string(agg, separator)
    /\ bpc' = "serialized"
    /\ UNCHANGED <<batch, bdefaults, bout, agg, bagain, codecVars, sessionVars>>

NextAggregate == Build \/ Unset \/ Serialize
SpecAggregate == InitAggregate /\ [][NextAggregate]_vars

\* C17: a configuration built from a batch without a fragment of a
\* registered setting, with defaults true or false, serializes without
\* exception to the bytes that a configuration fresh from the constructor
\* serializes to, and no default instance of a registered setting fails to
\* encode
C17_DefaultDeterminism ==
    /\ \A i \in 1..Len(REGISTRY) : to_config_string(REGISTRY[i], Construct(REGISTRY[i])).ok
    /\ (bpc = "serialized" /\ Known(batch) = <<>> /\ agg = bout.v)
          => /\ bblob.ok
             /\ Configuration_to_config_string(NewConfiguration, bsep).ok
             /\ bblob.v = Configuration_to_config_string(NewConfiguration, bsep).v

\* a configuration built with defaults=True from a batch of one fragment
\* that is skipped, serialized with the default separator
C17_Witness ==
    /\ bpc = "serialized"
    /\ batch = <<F_K999>>
    /\ bdefaults
    /\ agg = bout.v
    /\ bsep = <<>>
    /\ bblob.ok
    /\ SubSeq(bblob.v.v, 1, 5) = <<"<", "K", "1", "0", "0">>
    /\ Len(bblob.v.v) = 345

\* the slots of cfg that hold an instance, in registry order
Held(cfg) ==
    SelectSeq(PropNames, LAMBDA p : IF p \in DOMAIN cfg THEN "cls" \in DOMAIN cfg[p] ELSE FALSE)

\* the outcome of to_config_string of the instance in each such slot
Own(cfg) ==
    LET slots == Held(cfg)
    IN [n \in 1..Len(slots) |-> to_config_string(ClassOf(cfg[slots[n]]), cfg[slots[n]])]

\* s is made of the given parts in their order, sep between two that follow
\* each other and nowhere else
LaidOut(s, parts, sep) ==
    LET start[n \in 1..Len(parts)] ==
            IF n = 1 THEN 1 ELSE start[n - 1] + Len(parts[n - 1]) + Len(sep)
    IN /\ Len(s) = IF parts = <<>> THEN 0
                   ELSE start[Len(parts)] + Len(parts[Len(parts)]) - 1
       /\ \A n \in 1..Len(parts) :
             SubSeq(s, start[n], start[n] + Len(parts[n]) - 1) = parts[n]
       /\ \A n \in 2..Len(parts) :
             SubSeq(s, start[n] - Len(sep), start[n] - 1) = sep

\* C18: to_config_string(separator) of a configuration returns one fragment
\* for each slot that holds an instance, in registry order, each the bytes
\* the instance itself encodes to, with the separator between two fragments
\* that follow each other and neither before the first nor after the last
C18_BlobLayout ==
    bpc = "serialized" =>
        LET own == Own(agg)
        IN /\ \A n \in 1..Len(own) : own[n].ok
           /\ bblob.ok
           /\ LaidOut(bblob.v.v, [n \in 1..Len(own) |-> own[n].v.v], bsep)

\* a configuration of which the caller emptied the first slot and deleted
\* another, serialized with a newline as separator
C18_Witness ==
    /\ bpc = "serialized"
    /\ batch = <<F_K229>>
    /\ PropNames[1] \in DOMAIN agg
    /\ agg[PropNames[1]] = NoneV
    /\ P_trigger \notin DOMAIN agg
    /\ Len(Held(agg)) = Len(PropNames) - 2
    /\ bsep = <<NL>>
    /\ bblob.ok
    /\ SubSeq(bblob.v.v, 1, 5) = <<"<", "K", "1", "4", "0">>
    /\ bblob.v.v[Len(bblob.v.v)] = ">"

\* ------------------------------------------------------------------------
\* Aggregate: serialize a configuration, find the fragments in the bytes as
\* read_config does, and build a configuration from them
\* ------------------------------------------------------------------------
\* well-formed fragments, some with <, > or a comma as the value of a
\* character field, and one that is skipped
Marked == {F_K200, F_K201, F_K229, F_K999, F_K222gt, F_K222lt, F_K222comma, F_K201gt}

InitBlob ==
    /\ batch \in ListsOf(Marked, MaxBuilt)
    /\ bdefaults \in BOOLEAN
    /\ bout = NoOutcome
    /\ bpc = "new"
    /\ agg = <<>>
    /\ bsep = <<>>
    /\ bblob = NoOutcome
    /\ bagain = NoOutcome
    /\ IdleCodec
    /\ InitSession

\* re.findall(b'<K[^>]*>', blob) on the bytes of the empty separator: the
\* fragments found are the list from_config_strings is called with next
\* (Build, with the default defaults=False), and the bytes are kept to compare
\* the next serialization with
Reread ==
    /\ bpc = "serialized"
    /\ bblob.ok
    /\ bsep = <<>>
    /\ batch' = FindK(bblob.v.v, 1)
    /\ bdefaults' = FALSE
    /\ bagain' = bblob
    /\ bout' = NoOutcome
    /\ agg' = <<>>
    /\ bpc' = "new"
    /\ UNCHANGED <<bsep, bblob, codecVars, sessionVars>>

NextBlob == Build \/ Serialize \/ Reread
SpecBlob == InitBlob /\ [][NextBlob]_vars

\* C30: the bytes a configuration serializes to with the empty separator,
\* cut into fragments as read_config cuts what it read and built into a
\* configuration again, give a configuration, and it serializes to the same
\* bytes
C30_BlobRoundTrip ==
    /\ (bpc = "done" /\ bagain.ok) => bout.ok
    /\ (bpc = "serialized" /\ bagain.ok /\ bsep = <<>>) => (bblob.ok /\ bblob.v = bagain.v)

\* ------------------------------------------------------------------------
\* Session: the driver, its port, the device behind it and the caller
\* ------------------------------------------------------------------------
AnyOpen(hs) == \E h \in 1..Len(hs) : hs[h]
Connected == port # 0 /\ handles[port]
Closed == port # 0 /\ ~handles[port]

\* object ids reachable from the driver and the caller
Live(refs) == refs \ {0}
NewId(live) == CHOOSE i \in ObjIds \ live : \A j \in ObjIds \ live : i <= j
Compact(h, live) == [i \in ObjIds |-> IF i \in live THEN h[i] ELSE Free]

\* handing out the object itself
SameObject(id, live) == id

\* copy.deepcopy(cfg): the id of a new object, to hold equal contents
deepcopy(id, live) == NewId(live)

\* the device's reaction to the messages of one call
React(msgs, before) ==
    LET marks == SelectSeq(msgs, LAMBDA x : x \in {B_I, B_H})
    IN IF marks = <<>> THEN before ELSE marks[Len(marks)] = B_I

\* a clock that stands still
Stopped(polls) == 0

\* time.time() - start_of_wait after the given number of passes of the loop
Elapsed(polls) == polls * SleepCs + OverheadCs

\* the first line of the input buffer, or all of it when the read times out
Readline(buf) ==
    IF \E i \in 1..Len(buf) : buf[i] = NL
    THEN SubSeq(buf, 1, CHOOSE i \in 1..Len(buf) :
                            buf[i] = NL /\ \A j \in 1..(i - 1) : buf[j] # NL)
    ELSE buf

\* self.port.<method>(): AttributeError before the first connect, and
\* SerialException on a port that is not open
PortError == IF port = 0 THEN "AttributeError"
             ELSE IF ~handles[port] THEN "SerialException" ELSE ""

\* a call that raises before it touches anything
RaiseFrom(op, exc) ==
    /\ last' = Failed(op, exc)
    /\ written' = <<>>
    /\ UNCHANGED <<port, handles, objVars, inbuf, devq, suspended, pc, frame>>

\* read_config up to its polling loop: <I>, flush, <K?>
StartPolling(op, timeout) ==
    /\ written' = <<B_I, B_KQ>>
    /\ suspended' = TRUE
    /\ devq' \in Responses
    /\ pc' = "rc_poll"
    /\ frame' = [NoFrame EXCEPT !.op = op, !.timeout = timeout]
    /\ last' = NoCall

\* the serial.Serial object that self.port referred to, once connect has
\* bound self.port to a new one: connect does not close it, and whether a
\* finalizer of the object closes it is left to the garbage collector
Unreferenced(hs, p, finalized) ==
    IF p # 0 /\ finalized THEN [hs EXCEPT ![p] = FALSE] ELSE hs

\* MicroscanDriver.connect: open the port, then read_config
Connect(op) ==
    /\ pc = "idle"
    /\ Len(handles) < MaxHandles
    /\ \/ /\ last' = Failed(op, "SerialException")
          /\ written' = <<>>
          /\ UNCHANGED <<port, handles, objVars, inbuf, devq, suspended, pc,
                         frame>>
       \/ /\ \E finalized \in BOOLEAN :
                handles' = Append(Unreferenced(handles, port, finalized), TRUE)
          /\ port' = Len(handles) + 1
          /\ StartPolling(op, DefaultTimeoutCs)
          /\ UNCHANGED <<objVars, inbuf>>
    /\ UNCHANGED <<codecVars, batchVars>>

\* a close that refuses a port that is closed already
CloseOnce(op) ==
    /\ pc = "idle"
    /\ IF PortError # ""
       THEN RaiseFrom(op, PortError)
       ELSE /\ handles' = [handles EXCEPT ![port] = FALSE]
            /\ last' = Done(op)
            /\ written' = <<>>
            /\ inbuf' = IF AnyOpen(handles') THEN inbuf ELSE <<>>
            /\ UNCHANGED <<port, objVars, devq, suspended, pc, frame>>
    /\ UNCHANGED <<codecVars, batchVars>>

\* MicroscanDriver.close
Close(op) ==
    /\ pc = "idle"
    /\ IF port = 0
       THEN RaiseFrom(op, "AttributeError")
       ELSE /\ handles' = [handles EXCEPT ![port] = FALSE]
            /\ last' = Done(op)
            /\ written' = <<>>
            /\ inbuf' = IF AnyOpen(handles') THEN inbuf ELSE <<>>
            /\ UNCHANGED <<port, objVars, devq, suspended, pc, frame>>
    /\ UNCHANGED <<codecVars, batchVars>>

\* MicroscanDriver.write
Write(bytes_) ==
    LET data == IF bytes_.t = "str" THEN PyBytes(bytes_.v) ELSE bytes_
    IN /\ pc = "idle"
       /\ IF PortError # ""
          THEN RaiseFrom("write", PortError)
          ELSE /\ written' = <<data.v>>
               /\ suspended' = React(written', suspended)
               /\ last' = Done("write")
               /\ UNCHANGED <<port, handles, objVars, inbuf, devq, pc, frame>>
       /\ UNCHANGED <<codecVars, batchVars>>

\* MicroscanDriver.read_config, from the call to the polling loop
ReadConfig(timeout) ==
    /\ pc = "idle"
    /\ IF PortError # ""
       THEN RaiseFrom("read_config", PortError)
       ELSE /\ StartPolling("read_config", timeout)
            /\ UNCHANGED <<port, handles, objVars, inbuf>>
    /\ UNCHANGED <<codecVars, batchVars>>

\* a polling loop that is left at the first pass that finds bytes buffered
PollUntilData ==
    /\ pc = "rc_poll"
    /\ LET prev_buffer_size == frame.buffer_size
           buffer_size == Len(inbuf)
           polls == frame.polls + 1
           leave == \/ buffer_size > 0
                    \/ Elapsed(polls) > frame.timeout
       IN /\ frame' = [frame EXCEPT !.prev_buffer_size = prev_buffer_size,
                                    !.buffer_size = buffer_size, !.polls = polls]
          /\ pc' = IF leave THEN "rc_read" ELSE "rc_poll"
    /\ UNCHANGED <<port, handles, objVars, devVars, last>>
    /\ UNCHANGED <<codecVars, batchVars>>

\* one pass of the polling loop of read_config
Poll ==
    /\ pc = "rc_poll"
    /\ LET prev_buffer_size == frame.buffer_size
           buffer_size == Len(inbuf)
           polls == frame.polls + 1
           leave == \/ buffer_size > 0 /\ prev_buffer_size = buffer_size
                    \/ Elapsed(polls) > frame.timeout
       IN /\ frame' = [frame EXCEPT !.prev_buffer_size = prev_buffer_size,
                                    !.buffer_size = buffer_size, !.polls = polls]
          /\ pc' = IF leave THEN "rc_read" ELSE "rc_poll"
    /\ UNCHANGED <<port, handles, objVars, devVars, last>>
    /\ UNCHANGED <<codecVars, batchVars>>

\* a connect that returns without keeping what it read
Discard(cfg, kept) ==
    IF ~cfg.ok
    THEN /\ last' = Failed(frame.op, cfg.exc)
         /\ UNCHANGED objVars
    ELSE IF frame.op = "read_config"
    THEN /\ _config' = NewId(kept)
         /\ held' = deepcopy(_config', kept \cup {_config'})
         /\ heap' = Compact([heap EXCEPT ![_config'] = cfg.v, ![held'] = cfg.v],
                            kept \cup {_config', held'})
         /\ last' = Ended(frame.op, "", PyInt(held'))
    ELSE /\ last' = Done(frame.op)
         /\ UNCHANGED objVars

\* an end of read_config that empties the cache when from_config_strings
\* raised
Forget(cfg, kept) ==
    IF ~cfg.ok
    THEN /\ last' = Failed(frame.op, cfg.exc)
         /\ _config' = 0
         /\ heap' = Compact(heap, Live({held}))
         /\ UNCHANGED held
    ELSE IF frame.op = "read_config"
    THEN /\ _config' = NewId(kept)
         /\ held' = deepcopy(_config', kept \cup {_config'})
         /\ heap' = Compact([heap EXCEPT ![_config'] = cfg.v, ![held'] = cfg.v],
                            kept \cup {_config', held'})
         /\ last' = Ended(frame.op, "", PyInt(held'))
    ELSE /\ _config' = NewId(kept)
         /\ heap' = Compact([heap EXCEPT ![_config'] = cfg.v], kept \cup {_config'})
         /\ last' = Done(frame.op)
         /\ UNCHANGED held

\* the end of read_config after from_config_strings: the assignment to
\* self._config and the copy handed to the caller; connect keeps that copy
\* as self._config
Store(cfg, kept) ==
    IF ~cfg.ok
    THEN /\ last' = Failed(frame.op, cfg.exc)
         /\ UNCHANGED objVars
    ELSE IF frame.op = "read_config"
    THEN /\ _config' = NewId(kept)
         /\ held' = deepcopy(_config', kept \cup {_config'})
         /\ heap' = Compact([heap EXCEPT ![_config'] = cfg.v, ![held'] = cfg.v],
                            kept \cup {_config', held'})
         /\ last' = Ended(frame.op, "", PyInt(held'))
    ELSE /\ _config' = NewId(kept)
         /\ heap' = Compact([heap EXCEPT ![_config'] = cfg.v], kept \cup {_config'})
         /\ last' = Done(frame.op)
         /\ UNCHANGED held

\* an end of read_config that resumes the device only when the answer gave
\* a configuration
BuildThenResume ==
    /\ inbuf' = <<>>
    /\ IF from_config_strings(FindK(inbuf, 1), FALSE).ok
       THEN /\ written' = Append(written, B_H)
            /\ suspended' = FALSE
       ELSE UNCHANGED <<written, suspended>>
    /\ Store(from_config_strings(FindK(inbuf, 1), FALSE),
             IF frame.op = "read_config" THEN {} ELSE Live({held}))

\* an end of read_config that decodes the fragments into the cached
\* configuration
FinishMerging ==
    /\ inbuf' = <<>>
    /\ written' = Append(written, B_H)
    /\ suspended' = FALSE
    /\ Store(FromLines(IF _config = 0 THEN NewConfiguration ELSE heap[_config],
                       FindK(inbuf, 1), 1),
             IF frame.op = "read_config" THEN {} ELSE Live({held}))

\* the end of read_config: read_all, <H>, findall, from_config_strings
Finish ==
    /\ inbuf' = <<>>
    /\ written' = Append(written, B_H)
    /\ suspended' = FALSE
    /\ Store(from_config_strings(FindK(inbuf, 1), FALSE),
             IF frame.op = "read_config" THEN {} ELSE Live({held}))

RcFinish ==
    /\ pc = "rc_read"
    /\ Finish
    /\ pc' = "idle"
    /\ frame' = NoFrame
    /\ devq' = <<>>
    /\ UNCHANGED <<port, handles>>
    /\ UNCHANGED <<codecVars, batchVars>>

\* a write_config that sends every fragment in a write of its own
SendApart(blob) ==
    /\ IF blob.ok
       THEN /\ written' = <<B_I>> \o FindK(blob.v.v, 1) \o <<B_H>>
            /\ last' = Done("write_config")
       ELSE /\ written' = <<B_I>>
            /\ last' = Failed("write_config", blob.exc)
    /\ suspended' = React(written', suspended)
    /\ UNCHANGED <<port, handles, objVars, inbuf, devq, pc, frame>>

\* the three writes of write_config; an exception of to_config_string
\* leaves the method after the first
Send(blob) ==
    /\ IF blob.ok
       THEN /\ written' = <<B_I, blob.v.v, B_H>>
            /\ last' = Done("write_config")
       ELSE /\ written' = <<B_I>>
            /\ last' = Failed("write_config", blob.exc)
    /\ suspended' = React(written', suspended)
    /\ UNCHANGED <<port, handles, objVars, inbuf, devq, pc, frame>>

\* a write_config that looks at the cache only after the suspend command
SuspendThenCheck ==
    IF PortError # ""
    THEN RaiseFrom("write_config", PortError)
    ELSE IF _config = 0
    THEN /\ written' = <<B_I>>
         /\ last' = Failed("write_config", "TypeError")
         /\ suspended' = TRUE
         /\ UNCHANGED <<port, handles, objVars, inbuf, devq, pc, frame>>
    ELSE Send(Configuration_to_config_string(heap[_config], <<>>))

\* MicroscanDriver.write_config
WriteConfigBody ==
    IF _config = 0
    THEN RaiseFrom("write_config", "TypeError")
    ELSE IF PortError # ""
    THEN RaiseFrom("write_config", PortError)
    ELSE Send(Configuration_to_config_string(heap[_config], <<>>))

WriteConfig ==
    /\ pc = "idle"
    /\ WriteConfigBody
    /\ UNCHANGED <<codecVars, batchVars>>

\* the config property
ConfigBody ==
    /\ held' = _config
    /\ heap' = Compact(heap, Live({_config}))

Config ==
    /\ pc = "idle"
    /\ ConfigBody
    /\ last' = Ended("config", "", PyInt(held'))
    /\ UNCHANGED <<port, handles, _config, devVars, pc, frame>>
    /\ UNCHANGED <<codecVars, batchVars>>

\* the caller sets trigger.trigger_mode on the configuration object it holds
Mutate(mode) ==
    /\ pc = "idle"
    /\ held # 0
    /\ heap' = [heap EXCEPT ![held][P_trigger].f.trigger_mode =
                                EnumV("TriggerMode", mode)]
    /\ last' = NoCall
    /\ UNCHANGED <<port, handles, _config, held, devVars, pc, frame>>
    /\ UNCHANGED <<codecVars, batchVars>>

\* the trigger read_barcode sends in serial mode
TriggerOf(cfg) ==
    LET as_hex == cfg[P_start_trigger_character].f.start_trigger_character
        char == cfg[P_serial_trigger].f.serial_trigger_character
    IN IF Truthy(as_hex)
       THEN Ret(<<HexByte(as_hex.v)>>)
       ELSE IF char.t = "bytes" THEN Ret(<<"<">> \o char.v \o <<">">>)
       ELSE Raise("TypeError")

\* serial.Serial.flush: waits until the output is written
Flush(buf) == buf

\* the serial-trigger branch of read_barcode up to its line read
SerialBranch ==
    LET trigger == TriggerOf(heap[_config])
    IN IF ~trigger.ok
       THEN RaiseFrom("read_barcode", trigger.exc)
       ELSE IF PortError # ""
       THEN RaiseFrom("read_barcode", PortError)
       ELSE /\ inbuf' = Flush(inbuf)
            /\ written' = <<trigger.v>>
            /\ pc' = "rb_readline"
            /\ frame' = [NoFrame EXCEPT !.op = "read_barcode", !.branch = "serial"]
            /\ last' = NoCall
            /\ UNCHANGED <<port, handles, objVars, devq, suspended>>

\* the other branch of read_barcode up to its return or its line read
BufferBranch ==
    IF PortError # ""
    THEN RaiseFrom("read_barcode", PortError)
    ELSE LET buffer_contents == inbuf
             lines == SplitCRLF(buffer_contents, 1, 1)
         IN /\ inbuf' = <<>>
            /\ written' = <<>>
            /\ IF Len(lines) > 2 /\ lines[Len(lines)] = <<>>
               THEN /\ last' = Ended("read_barcode", "",
                                     PyStr(Strip(lines[Len(lines) - 1])))
                    /\ UNCHANGED <<pc, frame>>
               ELSE /\ pc' = "rb_readline"
                    /\ frame' = [NoFrame EXCEPT !.op = "read_barcode",
                                                !.branch = "buffer",
                                                !.buffer_contents = buffer_contents]
                    /\ last' = NoCall
            /\ UNCHANGED <<port, handles, objVars, devq, suspended>>

\* MicroscanDriver.read_barcode up to its return or its line read
ReadBarcode ==
    /\ pc = "idle"
    /\ IF _config = 0
       THEN RaiseFrom("read_barcode", "AttributeError")
       ELSE IF heap[_config][P_trigger].f.trigger_mode = SerialData
       THEN SerialBranch
       ELSE BufferBranch
    /\ UNCHANGED <<codecVars, batchVars>>

\* the line read of read_barcode returns: a line came, or the read timed out
ReadlineReturn ==
    /\ pc = "rb_readline"
    /\ LET line == Readline(inbuf)
       IN /\ inbuf' = SubSeq(inbuf, Len(line) + 1, Len(inbuf))
          /\ last' = Ended("read_barcode", "", PyStr(Strip(line)))
    /\ pc' = "idle"
    /\ frame' = NoFrame
    /\ UNCHANGED <<port, handles, objVars, written, devq, suspended>>
    /\ UNCHANGED <<codecVars, batchVars>>

\* the next chunk of the device's answer to <K?> arrives; what has not
\* arrived after MaxDelay passes of the loop does not arrive before the
\* buffer is read
DeviceRespond ==
    /\ devq # <<>>
    /\ pc = "rc_poll"
    /\ frame.polls < MaxDelay
    /\ inbuf' = inbuf \o Head(devq)
    /\ devq' = Tail(devq)
    /\ last' = NoCall
    /\ UNCHANGED <<port, handles, objVars, written, suspended, pc, frame>>
    /\ UNCHANGED <<codecVars, batchVars>>

\* the device, scanning, sends barcode data
DeviceBarcode(chunk) ==
    /\ AnyOpen(handles)
    /\ ~suspended
    /\ devq = <<>>
    /\ Len(inbuf) + Len(chunk) <= MaxBuf
    /\ IF chunk[Len(chunk)] = NL \/ Len(inbuf) = 0 THEN TRUE
       ELSE inbuf[Len(inbuf)] = NL
    /\ inbuf' = inbuf \o chunk
    /\ last' = NoCall
    /\ UNCHANGED <<port, handles, objVars, written, devq, suspended, pc, frame>>
    /\ UNCHANGED <<codecVars, batchVars>>

ConnectCall == Connect("connect")
CloseCall == Close("close")
WriteCall == \E bytes_ \in WriteInputs : Write(bytes_)
ReadConfigCall == \E timeout \in TimeoutArgs : ReadConfig(timeout)
MutateCall == \E mode \in MutationModes : Mutate(mode)
Scan == \E chunk \in BarcodeChunks : DeviceBarcode(chunk)
\* the first connect of a session
Open == port = 0 /\ Connect("connect")

Init ==
    /\ InitSession
    /\ IdleCodec
    /\ IdleBatch

\* a session in any use, on a device that sends no barcode unasked
Next ==
    \/ ConnectCall
    \/ CloseCall
    \/ WriteCall
    \/ ReadConfigCall
    \/ Poll
    \/ RcFinish
    \/ DeviceRespond
    \/ WriteConfig
    \/ Config
    \/ MutateCall
    \/ ReadBarcode
    \/ ReadlineReturn

Spec == Init /\ [][Next]_vars

\* a session that connects once and reads barcodes from a scanning device
NextScan ==
    \/ Open
    \/ Poll
    \/ RcFinish
    \/ DeviceRespond
    \/ Config
    \/ MutateCall
    \/ ReadBarcode
    \/ ReadlineReturn
    \/ Scan

SpecScan == Init /\ [][NextScan]_vars

P_multisymbol == <<"m", "u", "l", "t", "i", "s", "y", "m", "b", "o", "l">>

\* the caller sets multisymbol.number_of_symbols, to a value that
\* Multisymbol.is_valid accepts, on the configuration object it holds
Misconfigure ==
    /\ pc = "idle"
    /\ held # 0
    /\ heap' = [heap EXCEPT ![held][P_multisymbol].f.number_of_symbols = PyInt(0)]
    /\ last' = NoCall
    /\ UNCHANGED <<port, handles, _config, held, devVars, pc, frame>>
    /\ UNCHANGED <<codecVars, batchVars>>

\* a session that connects once, reads and writes configurations and
\* changes the one it holds
NextWrite ==
    \/ Open
    \/ ReadConfigCall
    \/ Poll
    \/ RcFinish
    \/ DeviceRespond
    \/ Config
    \/ Misconfigure
    \/ WriteConfig

SpecWrite == Init /\ [][NextWrite]_vars

\* ------------------------------------------------------------------------
\* Properties of the session
\* ------------------------------------------------------------------------
\* self._config holds a MicroscanConfiguration: every registered setting
\* has its attribute
HoldsAggregate(id) ==
    /\ id # 0
    /\ DOMAIN heap[id] = {PropNames[n] : n \in 1..Len(PropNames)}

C3_ClosedRaises ==
    /\ (Closed /\ last.op \in {"write", "read_config", "write_config", "read_barcode"})
          => last.exc = "SerialException"
    /\ (port = 0 /\ last.op = "write") => last.exc = "SerialException"

\* C4: write_config on a session whose cache is empty raises TypeError and
\* writes nothing, the suspend command included
C4_NoConfigNoWrite ==
    (last.op = "write_config" /\ _config = 0)
        => /\ last.exc = "TypeError"
           /\ written = <<>>

\* write_config was called on an open port with an empty cache
C4_Witness ==
    /\ last.op = "write_config"
    /\ _config = 0
    /\ Connected
    /\ last.exc = "TypeError"

\* the buffer holds one or more barcodes, each followed by CR LF, and
\* nothing else
OnlyBarcodes(buf) ==
    /\ Len(buf) >= 3
    /\ buf[Len(buf) - 1] = CR
    /\ buf[Len(buf)] = NL
    /\ \A i \in 1..Len(SplitCRLF(buf, 1, 1)) - 1 : SplitCRLF(buf, 1, 1)[i] # <<>>

\* C5: outside serial trigger mode, read_barcode takes its line read only
\* when the bytes it found in the buffer are not a run of complete barcodes
C5_LastBarcode ==
    (pc = "rb_readline" /\ frame.branch = "buffer")
        => ~OnlyBarcodes(frame.buffer_contents)

\* C6: in serial trigger mode no byte waits in the input buffer when
\* read_barcode has written its trigger and starts its line read
C6_NoStale ==
    [][(ReadBarcode /\ pc' = "rb_readline" /\ frame'.branch = "serial")
          => inbuf' = <<>>]_vars

\* the polling loop was left because of the time, not because the buffer
\* stopped growing
TimeoutExit ==
    /\ pc = "rc_read"
    /\ ~(frame.buffer_size > 0 /\ frame.prev_buffer_size = frame.buffer_size)

C8_NoReconnect == [][Closed => ~Connected']_vars

\* C8, as the code has it: close on a closed session does not fail and
\* leaves it closed, and a closed session stays closed until connect opens
\* a new port, which connects it again
C8_Lifecycle ==
    [][/\ (Closed /\ CloseCall) => last'.exc = "" /\ Closed'
       /\ (Closed /\ ~ConnectCall) => Closed'
       /\ (Closed /\ Connected') => port' = Len(handles) + 1]_vars

\* the session was closed, connect was called and returned normally
C8_Witness ==
    /\ handles = <<FALSE, TRUE>>
    /\ port = 2
    /\ last = Done("connect")

\* C9: when connect has returned normally the port is open, the messages
\* of a configuration read went over it and the cache holds a configuration
C9_ConnectCaches ==
    (last.op = "connect" /\ last.exc = "")
        => /\ Connected
           /\ written = <<B_I, B_KQ, B_H>>
           /\ HoldsAggregate(_config)

\* connect has returned normally
C9_Witness ==
    /\ last = Done("connect")
    /\ Connected
    /\ HoldsAggregate(_config)

\* C19: read_config sends <H> only after the configuration has been built
\* from the answer: a read_config that ends with InvalidConfigString has
\* sent <I> and <K?> and no <H>
C19_ResumeAfterBuild ==
    (last.op = "read_config" /\ last.exc = "InvalidConfigString")
        => written = <<B_I, B_KQ>>

\* C19, as the code has it: while read_config polls and until it has read
\* the buffer, <I> and <K?> are all it has sent and the device is suspended;
\* when it ends, with a configuration or with the exception of
\* from_config_strings, <H> has been sent after them and the device scans
\* again; when it returns, the cache holds the configuration and the
\* caller an equal copy
C19_ResumeBeforeBuild ==
    /\ pc \in {"rc_poll", "rc_read"} => (written = <<B_I, B_KQ>> /\ suspended)
    /\ (last.op = "read_config" /\ last.exc \notin {"AttributeError", "SerialException"})
          => /\ written = <<B_I, B_KQ, B_H>>
             /\ ~suspended
             /\ last.exc \in {"", "InvalidConfigString"}
             /\ last.exc = "" => /\ HoldsAggregate(_config)
                                 /\ last.ret = PyInt(held)
                                 /\ held # _config
                                 /\ heap[held] = heap[_config]

\* read_config ended with the exception of from_config_strings, the resume
\* command sent
C19_Witness ==
    /\ last = Failed("read_config", "InvalidConfigString")
    /\ written = <<B_I, B_KQ, B_H>>
    /\ ~suspended

\* C20: a write_config that returns normally has written <I>, the bytes
\* the cached configuration serializes to, in one write, and <H>, has read
\* nothing from the input buffer and left the cache as it was
C20_WriteConfigWrites ==
    [][(last' = Done("write_config") /\ WriteConfig)
          => /\ written' = <<B_I, Configuration_to_config_string(heap[_config], <<>>).v.v, B_H>>
             /\ Len(written') = 3
             /\ inbuf' = inbuf
             /\ _config' = _config
             /\ heap' = heap]_vars

\* write_config has returned, the cached configuration in serial trigger
\* mode, its 29 fragments in the second of three writes
C20_Witness ==
    /\ last = Done("write_config")
    /\ HoldsAggregate(_config)
    /\ heap[_config][P_trigger].f.trigger_mode = SerialData
    /\ Len(written) = 3
    /\ written[1] = B_I
    /\ written[3] = B_H
    /\ Len(FindK(written[2], 1)) = Len(REGISTRY)
    /\ ~suspended

\* the pass of the polling loop that counted frame.polls found as many
\* bytes buffered as the pass before it, and more than none
Quiescent(f, buffered) ==
    /\ f.polls >= 2
    /\ f.buffer_size = buffered
    /\ f.buffer_size > 0
    /\ f.prev_buffer_size = f.buffer_size

\* C21: a pass of the polling loop of read_config leaves the loop exactly
\* when it finds a number of buffered bytes that is not zero and is the
\* number the pass before found, or when the time since the start exceeds
\* the timeout; the buffer is read as that pass found it; a loop left
\* before the timeout has made two passes at least, and the first pass
\* never leaves it before the timeout
C21_PollingExit ==
    [][/\ Poll => /\ frame'.polls = frame.polls + 1
                  /\ frame'.buffer_size = Len(inbuf)
                  /\ frame'.prev_buffer_size = frame.buffer_size
                  /\ pc' = "rc_read" <=> \/ Len(inbuf) > 0 /\ Len(inbuf) = frame.buffer_size
                                         \/ Elapsed(frame'.polls) > frame.timeout
       /\ (Poll /\ pc' = "rc_read" /\ Elapsed(frame'.polls) <= frame.timeout)
             => Quiescent(frame', Len(inbuf'))
       /\ (Poll /\ frame.polls = 0 /\ Elapsed(1) <= frame.timeout) => pc' = "rc_poll"
       /\ RcFinish => (Len(inbuf) = frame.buffer_size /\ inbuf' = <<>>)]_vars

\* the loop of a connect is left at its second pass, well before the
\* timeout, with the bytes buffered that both passes counted
C21_Witness ==
    /\ pc = "rc_read"
    /\ frame.timeout = DefaultTimeoutCs
    /\ frame.polls = 2
    /\ Quiescent(frame, Len(inbuf))
    /\ Elapsed(frame.polls) < frame.timeout

\* the one trigger of a configuration in serial trigger mode: the byte of
\* the two hex digits of its start trigger character when it has one, else
\* its serial trigger character between < and >
OneTrigger(cfg) ==
    LET as_hex == cfg[P_start_trigger_character].f.start_trigger_character
        char == cfg[P_serial_trigger].f.serial_trigger_character
    IN IF as_hex.t \in {"bytes", "str"} /\ Len(as_hex.v) = 2
       THEN <<HexByte(as_hex.v)>>
       ELSE <<"<">> \o char.v \o <<">">>

\* C22: a read_barcode on an open port writes, when the cached
\* configuration is in serial trigger mode, the one trigger of that
\* configuration and nothing else, without an exception, and writes nothing
\* in any other trigger mode
C22_OneTriggerWritten ==
    [][(ReadBarcode /\ _config # 0 /\ PortError = "")
          => IF heap[_config][P_trigger].f.trigger_mode = SerialData
             THEN /\ written' = <<OneTrigger(heap[_config])>>
                  /\ last'.exc = ""
             ELSE written' = <<>>]_vars

\* C24: a read_config or write_config that has written <I> and has ended,
\* with a return or with an exception, has written <H> after it and leaves
\* the device scanning
C24_SuspendResumePaired ==
    (/\ last.op \in {"read_config", "write_config"}
     /\ \E i \in 1..Len(written) : written[i] = B_I)
        => /\ written[Len(written)] = B_H
           /\ ~suspended

\* C25: at most one of the ports the session has opened is open
C25_OneHandleOpen ==
    Cardinality({h \in 1..Len(handles) : handles[h]}) <= 1

\* C26: when connect has ended with the exception of the decoding of the
\* answer of the device, after it opened the port, the session holds no
\* open port
C26_FailedConnectClosed ==
    (last.op = "connect" /\ last.exc = "InvalidConfigString") => ~Connected

\* the configuration self._config refers to, none before the first
Cached == IF _config = 0 THEN Free ELSE heap[_config]

\* C27: a read_config that ends with an exception of from_config_strings
\* leaves self._config referring to the object it referred to, with the
\* contents it had; one that returns has put in the cache the configuration
\* decoded from all the fragments found in the bytes it read
C27_FailedReadKeepsCache ==
    [][/\ (RcFinish /\ last'.exc # "") => (_config' = _config /\ Cached' = Cached)
       /\ (RcFinish /\ last'.exc = "")
             => /\ from_config_strings(FindK(inbuf, 1), FALSE).ok
                /\ Cached' = from_config_strings(FindK(inbuf, 1), FALSE).v]_vars

\* read_config has ended with the exception of a fragment that violates
\* its grammar, and the cache holds the serial trigger mode that an earlier
\* answer of the device gave
C27_Witness ==
    /\ last = Failed("read_config", "InvalidConfigString")
    /\ HoldsAggregate(_config)
    /\ heap[_config][P_trigger].f.trigger_mode = SerialData
    /\ heap[_config][P_trigger].f.trigger_filter_duration = PyInt(244)

\* the registered settings of which the bytes hold no complete fragment
Missing(bytes_) ==
    {n \in 1..Len(RegistryValues) :
        \A i \in 1..Len(FindK(bytes_, 1)) :
            Carried(FindK(bytes_, 1))[i] # RegistryValues[n].K_CODE}

\* C28: when read_config returns, every slot of the cache of whose setting
\* the bytes read hold no complete fragment holds the default instance,
\* whatever the cache held before; and a read of bytes in which every
\* complete fragment is well-formed returns, however many settings are
\* missing
C28_ReplacesWholesale ==
    [][/\ (RcFinish /\ last'.exc = "")
             => \A n \in Missing(inbuf) :
                   Cached'[PropNames[n]] = Construct(RegistryValues[n])
       /\ (RcFinish /\ \A i \in 1..Len(FindK(inbuf, 1)) : FindK(inbuf, 1)[i] \notin Malformed)
             => last'.exc = ""]_vars

\* the cache holds a trigger setting that is not the default, and
\* read_config has left its loop with an answer of the device cut short
\* within the fragment of that setting
C28_Witness ==
    /\ pc = "rc_read"
    /\ frame.op = "read_config"
    /\ HoldsAggregate(_config)
    /\ heap[_config][P_trigger] # Construct(RegistryGet(<<"K", "2", "0", "0">>))
    /\ inbuf = F_K999 \o SubSeq(F_K200, 1, 7)
    /\ FindK(inbuf, 1) = <<F_K999>>
    /\ \E n \in Missing(inbuf) : PropNames[n] = P_trigger

\* part occurs in text as a run of consecutive elements
Within(part, text) ==
    \E k \in 0..(Len(text) - Len(part)) : SubSeq(text, k + 1, k + Len(part)) = part

\* C29: outside serial trigger mode, the text that read_barcode returns
\* after its line read holds the barcode bytes that its read of the whole
\* buffer had taken before
C29_NothingDropped ==
    [][(ReadlineReturn /\ frame.branch = "buffer")
          => /\ Len(last'.ret.v) >= Len(Strip(frame.buffer_contents))
             /\ Within(Strip(frame.buffer_contents), last'.ret.v)]_vars

====
